---- MODULE Spec2Model ----
(***************************************************************************)
(* Model of the job-description extractor (modules/jd/parser.py), of the   *)
(* matching engine (modules/matching/engine.py), of the resume segmenter   *)
(* (modules/profile/text_preserve.py) and of the upload handler with its   *)
(* merges and post-processing (modules/profile/router.py, extract.py,      *)
(* postprocess.py), and of the job search with its stream and its session  *)
(* store (modules/jobs/search.py, stream.py, session.py and                *)
(* modules/shared/cache.py).                                               *)
(*                                                                         *)
(* A string is a sequence of Unicode code points, so that lower-casing,    *)
(* tokenising, stripping, sorting and substring tests are computed the way *)
(* the Python code computes them.  Each literal carries its text in a      *)
(* comment.                                                                *)
(***************************************************************************)
EXTENDS Integers, Sequences, FiniteSets, TLC

VARIABLES
    pc,          \* position of the running call
    profile,     \* MatchInput.profile
    jd,          \* MatchInput.jd
    result,      \* MatchResult returned by match, or NoResult
    prevScore,   \* score of the match call before the last AddSkill, or -1
    added,       \* number of AddSkill steps so far
    doc,         \* the document parse_html_to_jd works on
    jdst,        \* local variables and result of parse_html_to_jd
    in_text,     \* the lines of the text parse_text_preserve works on
    tp,          \* local variables and result of parse_text_preserve
    up,          \* form fields, local variables and result of analyze_upload
    calls,       \* what the caller of the extractors has received so far
    SESSION,     \* session.py: the TTLCache of the seen hashes of each session
    stream,      \* input, local variables and events of one run of stream_jobs
    search       \* the concurrent calls of search_jobs, one per worker thread

\* the variables of the resume side
resumeVars == <<in_text, tp, up, calls>>

\* the variables of the job search
jobsVars == <<SESSION, stream, search>>

vars == <<pc, profile, jd, result, prevScore, added, doc, jdst, resumeVars, jobsVars>>

\* the job search at rest
JobsIdle == SESSION = <<>> /\ stream = [at |-> "off"] /\ search = <<>>

\* the resume side at rest
ResumeIdle ==
    in_text = <<>> /\ tp = [at |-> "idle"] /\ up = [at |-> "idle"] /\ calls = [n |-> 0, jd |-> {}, text |-> {}]

\* Python's None (distinct from every string, the empty string included)
None == <<-1>>

\* a Python value that is not a string (an object, a list, a number): truthy
NonStr == <<-2>>

\* a Python value that is not a string and is falsy (an empty list or object)
EmptyNonStr == <<-3>>

IsStr(x) == x \notin {None, NonStr, EmptyNonStr}

\* bool(x) for a value held in a scalar field
Truthy(x) == x \notin {None, <<>>, EmptyNonStr}

\* a or b
Or(a, b) == IF Truthy(a) THEN a ELSE b

Range(f) == {f[i] : i \in DOMAIN f}

Min(a, b) == IF a <= b THEN a ELSE b

Max(a, b) == IF a >= b THEN a ELSE b

(***************************************************************************)
(* str methods                                                             *)
(***************************************************************************)
IsUpper(c) == c \in 65..90

IsLowerCh(c) == c \in 97..122

IsAlpha(c) == IsUpper(c) \/ IsLowerCh(c)

IsDigit(c) == c \in 48..57

\* str.isspace for the characters of the inputs
IsSpace(c) == c \in {32, 9, 10, 13}

LowerChar(c) == IF IsUpper(c) THEN c + 32 ELSE c

UpperChar(c) == IF IsLowerCh(c) THEN c - 32 ELSE c

\* str.lower
Lower(s) == [i \in 1..Len(s) |-> LowerChar(s[i])]

\* str.upper
Upper(s) == [i \in 1..Len(s) |-> UpperChar(s[i])]

\* str.title: the first cased character after an uncased one is upper-cased,
\* every other cased character lower-cased
Title(s) ==
    [i \in 1..Len(s) |->
        IF i = 1 \/ ~IsAlpha(s[i - 1]) THEN UpperChar(s[i]) ELSE LowerChar(s[i])]

\* str.capitalize
Capitalize(s) ==
    [i \in 1..Len(s) |-> IF i = 1 THEN UpperChar(s[i]) ELSE LowerChar(s[i])]

\* str.strip(chars): chars is a set of code points
StripChars(s, chars) ==
    LET keep == {i \in 1..Len(s) : s[i] \notin chars}
    IN  IF keep = {} THEN <<>>
        ELSE LET lo == CHOOSE i \in keep : \A j \in keep : i <= j
                 hi == CHOOSE i \in keep : \A j \in keep : i >= j
             IN  SubSeq(s, lo, hi)

\* str.strip()
Strip(s) == StripChars(s, {32, 9, 10, 13})

\* str.replace(a, b) for single characters
ReplaceChar(s, a, b) == [i \in 1..Len(s) |-> IF s[i] = a THEN b ELSE s[i]]

\* needle in hay
Contains(hay, needle) ==
    \E i \in 1..(Len(hay) - Len(needle) + 1) :
        SubSeq(hay, i, i + Len(needle) - 1) = needle

\* hay.startswith(needle)
StartsWith(hay, needle) ==
    Len(needle) <= Len(hay) /\ SubSeq(hay, 1, Len(needle)) = needle

\* a < b on str: lexicographic by code point
StrLess(a, b) ==
    \E i \in 1..(Min(Len(a), Len(b)) + 1) :
        /\ \A j \in 1..(i - 1) : a[j] = b[j]
        /\ \/ i > Len(a) /\ i <= Len(b)
           \/ i <= Len(a) /\ i <= Len(b) /\ a[i] < b[i]

RemoveAt(xs, m) == [i \in 1..(Len(xs) - 1) |-> IF i < m THEN xs[i] ELSE xs[i + 1]]

\* sorted(xs) for a list of str
RECURSIVE sorted(_)
sorted(xs) ==
    IF xs = <<>> THEN <<>>
    ELSE LET m == CHOOSE i \in 1..Len(xs) :
                      \A j \in 1..Len(xs) : ~StrLess(xs[j], xs[i])
         IN  <<xs[m]>> \o sorted(RemoveAt(xs, m))

\* sep.join(parts)
RECURSIVE Join(_, _)
Join(sep, parts) ==
    IF parts = <<>> THEN <<>>
    ELSE IF Len(parts) = 1 THEN parts[1]
    ELSE parts[1] \o sep \o Join(sep, Tail(parts))

\* list(dict.fromkeys(xs)): drops later occurrences of an equal item
RECURSIVE DictFromKeys(_)
DictFromKeys(xs) ==
    IF xs = <<>> THEN <<>>
    ELSE LET front == DictFromKeys(SubSeq(xs, 1, Len(xs) - 1))
             last == xs[Len(xs)]
         IN  IF last \in Range(front) THEN front ELSE Append(front, last)

\* xs[:n]
Take(xs, n) == SubSeq(xs, 1, Min(n, Len(xs)))

\* concatenation of a list of lists
RECURSIVE Flatten(_)
Flatten(xss) == IF xss = <<>> THEN <<>> ELSE xss[1] \o Flatten(Tail(xss))

(***************************************************************************)
(* Iteration order of a Python set of str.  It depends on the string hash  *)
(* seed of the interpreter process, so the model draws it from a family of *)
(* orders: seed 0 yields the elements in descending order, seed k > 0 in   *)
(* ascending order rotated by k places.                                    *)
(***************************************************************************)
MaxHashSeed == 2

RECURSIVE Ascending(_)
Ascending(S) ==
    IF S = {} THEN <<>>
    ELSE LET m == CHOOSE x \in S : \A y \in S : ~StrLess(y, x)
         IN  <<m>> \o Ascending(S \ {m})

Iter(S, seed) ==
    LET a == Ascending(S)
        n == Len(a)
    IN  [i \in 1..n |-> IF seed = 0 THEN a[n + 1 - i] ELSE a[((i - 1 + seed) % n) + 1]]

(***************************************************************************)
(* modules/matching/engine.py                                              *)
(***************************************************************************)
\* [A-Za-z0-9+#\.]
WordChar(c) == IsAlpha(c) \/ IsDigit(c) \/ c \in {43, 35, 46}

\* WORD_RE.findall(s), as the set of the matches
WORD_RE_findall(s) ==
    LET starts == {i \in 1..Len(s) : WordChar(s[i]) /\ (i = 1 \/ ~WordChar(s[i - 1]))}
        end(i) == CHOOSE j \in i..Len(s) :
                      /\ \A k \in i..j : WordChar(s[k])
                      /\ (j = Len(s) \/ ~WordChar(s[j + 1]))
    IN  {SubSeq(s, i, end(i)) : i \in starts}

STOP_TOKENS ==
    {<<97, 110, 100>>, <<119, 105, 116, 104>>, <<102, 111, 114>>, <<116, 104, 101>>,
     <<116, 111>>, <<111, 102>>, <<105, 110>>, <<111, 110>>,
     <<116, 101, 97, 109>>, <<119, 111, 114, 107>>, <<115, 107, 105, 108, 108, 115>>, <<101, 120, 112, 101, 114, 105, 101, 110, 99, 101>>,
     <<115, 117, 112, 112, 111, 114, 116>>, <<109, 97, 110, 97, 103, 101>>, <<109, 97, 110, 97, 103, 101, 109, 101, 110, 116>>, <<99, 117, 115, 116, 111, 109, 101, 114>>,
     <<115, 101, 114, 118, 105, 99, 101>>, <<115, 101, 114, 118, 105, 99, 101, 115>>, <<111, 112, 101, 114, 97, 116, 105, 111, 110, 115>>, <<112, 114, 111, 106, 101, 99, 116>>,
     <<112, 114, 111, 106, 101, 99, 116, 115>>, <<114, 101, 115, 112, 111, 110, 115, 105, 98, 105, 108, 105, 116, 105, 101, 115>>}

\* DISPLAY_MAP as a set of <<key, value>> pairs
DISPLAY_MAP ==
    {<<<<115, 113, 108>>, <<83, 81, 76>>>>, <<<<97, 119, 115>>, <<65, 87, 83>>>>, <<<<103, 99, 112>>, <<71, 67, 80>>>>,
     <<<<97, 112, 105>>, <<65, 80, 73>>>>, <<<<97, 112, 105, 115>>, <<65, 80, 73, 115>>>>, <<<<99, 105>>, <<67, 73>>>>,
     <<<<99, 100>>, <<67, 68>>>>, <<<<97, 105>>, <<65, 73>>>>, <<<<109, 108>>, <<77, 76>>>>,
     <<<<108, 108, 109>>, <<76, 76, 77>>>>, <<<<108, 108, 109, 115>>, <<76, 76, 77, 115>>>>, <<<<112, 121, 116, 104, 111, 110>>, <<80, 121, 116, 104, 111, 110>>>>,
     <<<<106, 97, 118, 97>>, <<74, 97, 118, 97>>>>, <<<<106, 97, 118, 97, 115, 99, 114, 105, 112, 116>>, <<74, 97, 118, 97, 83, 99, 114, 105, 112, 116>>>>, <<<<116, 121, 112, 101, 115, 99, 114, 105, 112, 116>>, <<84, 121, 112, 101, 83, 99, 114, 105, 112, 116>>>>,
     <<<<114, 101, 97, 99, 116>>, <<82, 101, 97, 99, 116>>>>, <<<<102, 97, 115, 116, 97, 112, 105>>, <<70, 97, 115, 116, 65, 80, 73>>>>}

\* the keyword -> tip table of match; the tips are those of the source:
\* a FastAPI tip, a C++ tip, a Python tip and an AWS tip
TIPS ==
    << <<<<102, 97, 115, 116, 97, 112, 105>>, <<24378, 35843, 32, 70, 97, 115, 116, 65, 80, 73, 47, 65, 80, 73, 32, 35774, 35745, 19982, 27979, 35797, 32463, 39564, 65292, 21253, 25324, 24615, 33021, 25110, 23433, 20840, 25913, 36827, 12290>>>>,
       <<<<99, 43, 43>>, <<21015, 20986, 20351, 29992, 32, 67, 43, 43, 32, 30340, 20855, 20307, 39033, 30446, 65292, 35828, 26126, 26631, 20934, 29256, 26412, 21450, 24615, 33021, 20248, 21270, 25104, 26524, 12290>>>>,
       <<<<112, 121, 116, 104, 111, 110>>, <<34917, 20805, 32, 80, 121, 116, 104, 111, 110, 32, 29983, 24577, 65288, 24322, 27493, 12289, 25968, 25454, 22788, 29702, 12289, 33258, 21160, 21270, 33050, 26412, 65289, 26041, 38754, 30340, 31034, 20363, 12290>>>>,
       <<<<97, 119, 115>>, <<22914, 26377, 20113, 32463, 39564, 65292, 21487, 28155, 21152, 26381, 21153, 26632, 65288, 83, 51, 47, 76, 97, 109, 98, 100, 97, 47, 69, 67, 50, 32, 31561, 65289, 19982, 25104, 26524, 12290>>>> >>

\* the labels of the reason, gap and recommendation lines
LBL_SKILLS == <<25216, 33021, 21305, 37197, 65306>>

LBL_EVIDENCE == <<30456, 20851, 32463, 21382, 65306>>

LBL_LOCATION == <<22320, 28857, 21305, 37197, 65306, 30446, 26631, 23703, 20301, 22312, 32>>

LBL_GAP_KEY == <<32570, 23569, 20851, 38190, 35789, 65306>>

LBL_GAP_REQ == <<32570, 23569, 32844, 36131, 35206, 30422, 65306>>

REC_KEY_PRE == <<24314, 35758, 34917, 20805, 19982, 32>>

REC_KEY_POST == <<32, 30456, 20851, 30340, 25104, 26524, 25110, 39033, 30446, 32454, 33410, 12290>>

REC_REQ == <<24314, 35758, 38024, 23545, 23703, 20301, 32844, 36131, 34917, 20805, 20855, 20307, 26696, 20363, 65292, 31361, 20986, 34892, 21160, 21160, 35789, 19982, 37327, 21270, 25351, 26631, 12290>>

DEFAULT_PREFIX == <<32463, 21382>>

\* " -- " with two em dashes
EVIDENCE_SEP == <<32, 8212, 8212, 32>>

ELLIPSIS == <<8230>>

tokens_from_texts(texts) ==
    UNION {{w \in WORD_RE_findall(Lower(texts[i])) : Len(w) > 2} : i \in DOMAIN texts}

\* normalize_profile whose bullet tokens are used only when there are no skills
normalize_profile_skills_only(p) ==
    IF p.skills # <<>> THEN {Lower(p.skills[i]) : i \in DOMAIN p.skills}
    ELSE UNION {tokens_from_texts(p.experience[i].bullets) : i \in DOMAIN p.experience}

\* normalize_profile without lower-casing the skills
normalize_profile_cased(p) ==
    {p.skills[i] : i \in DOMAIN p.skills}
    \cup UNION {tokens_from_texts(p.experience[i].bullets) : i \in DOMAIN p.experience}
    \cup UNION {tokens_from_texts(p.projects[i].bullets) : i \in DOMAIN p.projects}

normalize_profile(p) ==
    {Lower(p.skills[i]) : i \in DOMAIN p.skills}
    \cup UNION {{Lower(s) : s \in Range(p.courses[i].skills)
                                  \cup Range(p.courses[i].topics)
                                  \cup Range(p.courses[i].tools)} : i \in DOMAIN p.courses}
    \cup UNION {tokens_from_texts(p.experience[i].bullets) : i \in DOMAIN p.experience}
    \cup UNION {tokens_from_texts(p.projects[i].bullets) : i \in DOMAIN p.projects}

normalize_jd_key(j) == {Lower(j.keywords[i]) : i \in {i \in DOMAIN j.keywords : j.keywords[i] # <<>>}}

normalize_jd_req(j) == tokens_from_texts(j.requirements \o j.responsibilities)

clean_token(token) ==
    LET t == Lower(Strip(token))
    IN  IF t = <<>> THEN None
        ELSE IF t \in STOP_TOKENS THEN None
        ELSE IF \E i \in 1..Len(t) : IsDigit(t[i]) THEN None
        ELSE t

filter_tokens(tokens) ==
    LET cleaned == [i \in 1..Len(tokens) |-> clean_token(tokens[i])]
        IsToken(ct) == ct # None
    IN  DictFromKeys(SelectSeq(cleaned, IsToken))

display_token(token) ==
    IF \E e \in DISPLAY_MAP : e[1] = token
    THEN (CHOOSE e \in DISPLAY_MAP : e[1] = token)[2]
    ELSE IF Len(token) <= 3 THEN Upper(token)
    ELSE Title(ReplaceChar(token, 95, 32))

format_tokens(tokens, limit) ==
    LET filtered == filter_tokens(tokens)
        shown == Take(filtered, limit)
        display == [i \in 1..Len(shown) |-> display_token(shown[i])]
    IN  IF filtered = <<>> THEN <<>>
        ELSE Join(<<44, 32>>, display) \o (IF Len(filtered) > limit THEN ELLIPSIS ELSE <<>>)

\* the prefix of an evidence line: role and company
evidence_prefix(exp) ==
    LET role == Strip(IF exp.role = None THEN <<>> ELSE exp.role)
        company == Strip(IF exp.company = None THEN <<>> ELSE exp.company)
        nonEmpty(x) == x # <<>>
        joined == Join(<<32, 47, 32>>, SelectSeq(<<role, company>>, nonEmpty))
    IN  IF joined # <<>> THEN joined
        ELSE IF company # <<>> THEN company
        ELSE IF role # <<>> THEN role
        ELSE DEFAULT_PREFIX

\* the (prefix, bullet) pairs of collect_bullet_evidence before the limit
evidence_pairs(tokens, p, seed) ==
    LET meaningful_tokens == Range(filter_tokens(Iter(tokens, seed)))
        pairsOf(exp) ==
            LET hit(b) == b # <<>> /\ \E tok \in meaningful_tokens : Contains(Lower(b), tok)
                bs == SelectSeq(exp.bullets, hit)
            IN  [i \in 1..Len(bs) |-> <<evidence_prefix(exp), bs[i]>>]
    IN  IF tokens = {} \/ meaningful_tokens = {} THEN <<>>
        ELSE DictFromKeys(Flatten([i \in 1..Len(p.experience) |-> pairsOf(p.experience[i])]))

collect_bullet_evidence(tokens, p, limit, seed) ==
    LET evidence == Take(evidence_pairs(tokens, p, seed), limit)
    IN  [i \in 1..Len(evidence) |-> evidence[i][1] \o EVIDENCE_SEP \o evidence[i][2]]

\* no MatchResult yet
NoResult == [score |-> -1, reasons |-> <<>>, gaps |-> <<>>, recommendations |-> <<>>]

\* int(round(n / d)) for the exact quotient: Python rounds a half to the even
\* neighbour.  The double-precision value the code rounds equals the exact one
\* except on exact halves, which need |jd_key| divisible by 8 or |jd_req| by 16;
\* the inputs below stay under both.
RoundHalfEven(n, d) ==
    LET q == n \div d
        r == n % d
    IN  IF 2 * r < d THEN q
        ELSE IF 2 * r > d THEN q + 1
        ELSE IF q % 2 = 0 THEN q ELSE q + 1

\* score_of with the two weighted hit counts added up, the division by the
\* sizes of jd_key and jd_req left out
score_of_undivided(hits_key, n_key, hits_req, n_req) ==
    60 * (IF n_key = 0 THEN 0 ELSE hits_key) + 40 * (IF n_req = 0 THEN 0 ELSE hits_req)

\* int(round(100 * (0.6 * key_ratio + 0.4 * req_ratio)))
score_of(hits_key, n_key, hits_req, n_req) ==
    LET dk == Max(1, n_key)
        dr == Max(1, n_req)
        hk == IF n_key = 0 THEN 0 ELSE hits_key
        hr == IF n_req = 0 THEN 0 ELSE hits_req
    IN  RoundHalfEven(60 * hk * dr + 40 * hr * dk, dk * dr)

\* hit_key without sorted(): the hits in set iteration order
hit_key_unsorted(p, j, seed) == Iter(normalize_jd_key(j) \cap normalize_profile(p), seed)

hit_key_of(p, j, seed) == sorted(Iter(normalize_jd_key(j) \cap normalize_profile(p), seed))

\* hit_req taken after the display filter (stop-words and digit tokens dropped)
hit_req_filtered(p, j, seed) ==
    filter_tokens(sorted(Iter(normalize_jd_req(j) \cap normalize_profile(p), seed)))

hit_req_of(p, j, seed) == sorted(Iter(normalize_jd_req(j) \cap normalize_profile(p), seed))

gaps_key_of(p, j, seed) == sorted(Iter(normalize_jd_key(j) \ normalize_profile(p), seed))

gaps_req_of(p, j, seed) ==
    sorted(Iter((normalize_jd_req(j) \ normalize_profile(p)) \ STOP_TOKENS, seed))

match(p, j, seed) ==
    LET prof == normalize_profile(p)
        jd_key == normalize_jd_key(j)
        jd_req == normalize_jd_req(j)
        hit_key == hit_key_of(p, j, seed)
        hit_req == hit_req_of(p, j, seed)
        display_hit_key == filter_tokens(hit_key)
        display_hit_req == filter_tokens(hit_req)
        score == score_of(Len(hit_key), Cardinality(jd_key), Len(hit_req), Cardinality(jd_req))
        evidence == collect_bullet_evidence(Range(display_hit_key) \cup Range(display_hit_req),
                                            p, 3, seed)
        reasons ==
            (IF display_hit_key # <<>>
             THEN <<LBL_SKILLS \o format_tokens(display_hit_key, 6)>> ELSE <<>>)
            \o [i \in 1..Len(evidence) |-> LBL_EVIDENCE \o evidence[i]]
            \o (IF Truthy(j.location) /\ Truthy(p.location)
                   /\ Contains(Lower(p.location), Lower(j.location))
                THEN <<LBL_LOCATION \o j.location>> ELSE <<>>)
        display_gaps_key == filter_tokens(gaps_key_of(p, j, seed))
        display_gaps_req == filter_tokens(gaps_req_of(p, j, seed))
        gaps ==
            (IF display_gaps_key # <<>>
             THEN <<LBL_GAP_KEY \o format_tokens(display_gaps_key, 5)>> ELSE <<>>)
            \o (IF display_gaps_req # <<>>
                THEN <<LBL_GAP_REQ \o format_tokens(display_gaps_req, 8)>> ELSE <<>>)
        tipFires(e) == e[1] \in (jd_key \cup jd_req) /\ e[1] \notin prof
        tips == SelectSeq(TIPS, tipFires)
        recs ==
            (IF display_gaps_key # <<>>
             THEN <<REC_KEY_PRE \o format_tokens(display_gaps_key, 5) \o REC_KEY_POST>>
             ELSE <<>>)
            \o (IF display_gaps_req # <<>> THEN <<REC_REQ>> ELSE <<>>)
            \o [i \in 1..Len(tips) |-> tips[i][2]]
    IN  [score |-> score, reasons |-> reasons, gaps |-> gaps, recommendations |-> recs]

(***************************************************************************)
(* modules/jd/parser.py: values                                            *)
(*                                                                         *)
(* A JSON value is a record [k, v]: k is "null", "str", "num", "list" or   *)
(* "obj"; v is the string, the list of values, or the list of <<key,       *)
(* value>> pairs of the object in document order.  A Python value held in  *)
(* a scalar field is None, a string, or NonStr / EmptyNonStr.               *)
(***************************************************************************)
JNull == [k |-> "null", v |-> <<>>]

JStr(s) == [k |-> "str", v |-> s]

JNum(n) == [k |-> "num", v |-> <<n>>]

JList(xs) == [k |-> "list", v |-> xs]

JObj(pairs) == [k |-> "obj", v |-> pairs]

\* bool(x) of a JSON value
JTruthy(x) ==
    IF x.k = "null" THEN FALSE
    ELSE IF x.k = "num" THEN x.v[1] # 0
    ELSE Len(x.v) > 0

JOr(a, b) == IF JTruthy(a) THEN a ELSE b

\* key in obj
JHas(obj, key) == \E i \in DOMAIN obj.v : obj.v[i][1] = key

\* obj.get(key)
JGet(obj, key) ==
    IF JHas(obj, key)
    THEN obj.v[CHOOSE i \in DOMAIN obj.v :
                   obj.v[i][1] = key /\ \A j \in DOMAIN obj.v : obj.v[j][1] = key => j <= i][2]
    ELSE JNull

\* the Python value of a JSON value, as held in a scalar field
PyOf(x) ==
    IF x.k = "str" THEN x.v
    ELSE IF x.k = "null" THEN None
    ELSE IF JTruthy(x) THEN NonStr ELSE EmptyNonStr

(***************************************************************************)
(* modules/jd/parser.py: regular expressions and text helpers              *)
(***************************************************************************)
\* the maximal runs of s between the positions in D, in order, empty runs
\* left out (every caller drops empty fragments)
Fragments(s, D) ==
    LET starts == {i \in 1..Len(s) : i \notin D /\ (i = 1 \/ (i - 1) \in D)}
        end(i) == CHOOSE j \in i..Len(s) :
                      (\A k \in i..j : k \notin D) /\ (j = Len(s) \/ (j + 1) \in D)
        nth(n) == CHOOSE i \in starts : Cardinality({q \in starts : q < i}) = n - 1
    IN  [n \in 1..Cardinality(starts) |-> SubSeq(s, nth(n), end(nth(n)))]

\* \w
WordCh(c) == IsAlpha(c) \/ IsDigit(c) \/ c = 95

\* re.search(r"\b(w1|w2|...)\b", s, re.I) for words made of letters
HasWord(s, words) ==
    \E w \in words : \E i \in 1..(Len(s) - Len(w) + 1) :
        /\ Lower(SubSeq(s, i, i + Len(w) - 1)) = w
        /\ (i = 1 \/ ~WordCh(s[i - 1]))
        /\ (i + Len(w) - 1 = Len(s) \/ ~WordCh(s[i + Len(w)]))

\* re.search(r"p1|p2|...", s, re.I) for literal alternatives
HasAny(s, patterns) == \E q \in patterns : Contains(Lower(s), q)

HEADINGS_RESP ==
    { <<114, 101, 115, 112, 111, 110, 115, 105, 98, 105, 108, 105, 116>>, <<119, 104, 97, 116, 32, 121, 111, 117, 39, 108, 108, 32, 100, 111>>, <<119, 104, 97, 116, 32, 121, 111, 117, 32, 119, 105, 108, 108, 32, 100, 111>>, <<107, 101, 121, 32, 100, 117, 116, 105, 101, 115>>,
      <<97, 98, 111, 117, 116, 32, 116, 104, 101, 32, 114, 111, 108, 101>> }

HEADINGS_REQ ==
    { <<114, 101, 113, 117, 105, 114, 101, 109, 101, 110, 116>>, <<113, 117, 97, 108, 105, 102, 105, 99, 97, 116, 105, 111, 110>>, <<97, 98, 111, 117, 116, 32, 121, 111, 117>>, <<115, 107, 105, 108, 108, 115>>, <<101, 120, 112, 101, 114, 105, 101, 110, 99, 101>>,
      <<119, 104, 97, 116, 32, 121, 111, 117, 32, 98, 114, 105, 110, 103>> }

RESP_VERBS ==
    { <<100, 101, 115, 105, 103, 110>>, <<100, 101, 118, 101, 108, 111, 112>>, <<98, 117, 105, 108, 100>>, <<105, 109, 112, 108, 101, 109, 101, 110, 116>>, <<109, 97, 105, 110, 116, 97, 105, 110>>, <<100, 101, 108, 105, 118, 101, 114>>,
      <<111, 119, 110>>, <<108, 101, 97, 100>>, <<111, 112, 116, 105, 109, 105, 115, 101>>, <<111, 112, 116, 105, 109, 105, 122, 101>>, <<100, 101, 112, 108, 111, 121>>, <<109, 111, 110, 105, 116, 111, 114>>,
      <<116, 114, 111, 117, 98, 108, 101, 115, 104, 111, 111, 116>> }

REQ_TOKENS ==
    { <<101, 120, 112, 101, 114, 105, 101, 110, 99, 101>>, <<107, 110, 111, 119, 108, 101, 100, 103, 101>>, <<100, 101, 103, 114, 101, 101>>, <<98, 97, 99, 104, 101, 108, 111, 114>>, <<109, 97, 115, 116, 101, 114>>,
      <<112, 114, 111, 102, 105, 99, 105, 101, 110, 116>>, <<102, 97, 109, 105, 108, 105, 97, 114>>, <<114, 101, 113, 117, 105, 114, 101, 100>>, <<112, 114, 101, 102, 101, 114, 114, 101, 100>> }

TECH_TOKENS ==
    << <<112, 121, 116, 104, 111, 110>>, <<106, 97, 118, 97>>, <<99, 43, 43>>, <<99, 35>>, <<103, 111>>, <<116, 121, 112, 101, 115, 99, 114, 105, 112, 116>>,
       <<106, 97, 118, 97, 115, 99, 114, 105, 112, 116>>, <<114, 101, 97, 99, 116>>, <<110, 111, 100, 101>>, <<115, 112, 114, 105, 110, 103>>, <<100, 111, 99, 107, 101, 114>>, <<107, 117, 98, 101, 114, 110, 101, 116, 101, 115>>,
       <<97, 119, 115>>, <<97, 122, 117, 114, 101>>, <<103, 99, 112>>, <<115, 113, 108>>, <<112, 111, 115, 116, 103, 114, 101, 115>>, <<109, 121, 115, 113, 108>>,
       <<109, 111, 110, 103, 111, 100, 98>>, <<116, 101, 114, 114, 97, 102, 111, 114, 109>>, <<108, 105, 110, 117, 120>>, <<103, 105, 116>>, <<99, 105, 47, 99, 100>>, <<114, 111, 115>>,
       <<111, 112, 101, 110, 99, 118>>, <<112, 121, 116, 111, 114, 99, 104>>, <<116, 101, 110, 115, 111, 114, 102, 108, 111, 119>>, <<102, 97, 115, 116, 97, 112, 105>> >>

\* the positions of s that SPLIT_DELIMS consumes: a newline (with its
\* carriage return), a bullet, a semicolon, or white space after a full stop
SPLIT_DELIMS(s) ==
    {i \in 1..Len(s) :
        \/ s[i] \in {10, 8226, 59}
        \/ (s[i] = 13 /\ i < Len(s) /\ s[i + 1] = 10)
        \/ \E j \in 2..i :
               /\ s[j - 1] = 46
               /\ \A k \in j..i : IsSpace(s[k])
               /\ ~(s[j] = 10 \/ (s[j] = 13 /\ j < Len(s) /\ s[j + 1] = 10))}

\* re.split on newline, bullet, hyphen or asterisk, empty fragments left out
split_bullets(s) == Fragments(s, {i \in 1..Len(s) : s[i] \in {10, 8226, 45, 42}})

\* BeautifulSoup(s, "lxml").get_text("\n", strip=True) for text whose markup is
\* a flat run of tags: the text nodes, stripped, the empty ones dropped
get_text(s) ==
    LET inTag == {i \in 1..Len(s) :
                    \E j \in 1..i : s[j] = 60 /\ \A k \in j..(i - 1) : s[k] # 62}
        nodes == Fragments(s, inTag)
        stripped == [n \in 1..Len(nodes) |-> Strip(nodes[n])]
        nonEmpty(x) == x # <<>>
    IN  Join(<<10>>, SelectSeq(stripped, nonEmpty))

(***************************************************************************)
(* modules/jd/parser.py: the tiers.  A document is the parsed page:        *)
(*   url        the page URL or None                                       *)
(*   ld_scripts the contents of the ld+json scripts, each a JSON value or  *)
(*              BadJson when json.loads fails                              *)
(*   next_data  the __NEXT_DATA__ script: JNull when there is none, BadJson *)
(*              or a JSON value                                            *)
(*   og_title, title_tag, og_site_name, meta_description, company_tag      *)
(*              attribute values / element texts, or None                  *)
(*   dom_title, dom_company, dom_location  texts of the data-automation    *)
(*              elements, or None                                          *)
(*   body       the elements of the page in document order, as siblings:   *)
(*              [tag, text, items], items the <li> texts of a list         *)
(***************************************************************************)
BadJson == [k |-> "bad", v |-> <<>>]

\* the accumulators of a tier
EmptyTier ==
    [title |-> None, company |-> None, location |-> None, responsibilities |-> <<>>,
     requirements |-> <<>>, descriptions |-> <<>>, raised |-> FALSE]

\* the strings of a JSON list whose items are strings, stripped, the empty
\* ones dropped
stripped_items(xs) ==
    LET strs == [n \in 1..Len(xs) |-> IF xs[n].k = "str" THEN Strip(xs[n].v) ELSE <<>>]
        nonEmpty(x) == x # <<>>
    IN  SelectSeq(strs, nonEmpty)

\* a JSON list or delimiter-separated string as a list of items
items_of(x) ==
    IF x.k = "list" THEN stripped_items(x.v)
    ELSE IF x.k = "str"
    THEN LET parts == split_bullets(x.v)
             stripped == [n \in 1..Len(parts) |-> Strip(parts[n])]
             nonEmpty(y) == y # <<>>
         IN  SelectSeq(stripped, nonEmpty)
    ELSE <<>>

\* handle_jobposting: one node of a JSON-LD block.  ",".join over an @type list
\* and ", ".join over the address components raise TypeError on an item that
\* is not a string; no input has an @type that is an object.
handle_jobposting(acc, obj) ==
    IF acc.raised \/ obj.k # "obj" THEN acc
    ELSE
    LET t == JOr(JGet(obj, "@type"), JGet(obj, "type"))
        typeRaises == t.k = "list" /\ \E n \in DOMAIN t.v : t.v[n].k # "str"
        typeText == IF t.k = "list" THEN Join(<<44>>, [n \in 1..Len(t.v) |-> t.v[n].v])
                    ELSE IF t.k = "str" THEN t.v ELSE <<>>
        org == JOr(JGet(obj, "hiringOrganization"), JObj(<<>>))
        loc == JOr(JGet(obj, "jobLocation"), JObj(<<>>))
        addr == IF loc.k = "obj" THEN JOr(JGet(loc, "address"), JObj(<<>>)) ELSE JNull
        comps == << JGet(addr, "addressLocality"), JGet(addr, "addressRegion"),
                    JGet(addr, "addressCountry") >>
        present == SelectSeq(comps, JTruthy)
        joinRaises == /\ addr.k = "obj"
                      /\ ~Truthy(acc.location)
                      /\ \E n \in DOMAIN present : present[n].k # "str"
        desc == JGet(obj, "description")
    IN  IF typeRaises THEN [acc EXCEPT !.raised = TRUE]
        ELSE IF ~Contains(typeText, <<74, 111, 98, 80, 111, 115, 116, 105, 110, 103>>) THEN acc
        ELSE IF joinRaises THEN [acc EXCEPT !.raised = TRUE]
        ELSE [acc EXCEPT
                !.title = Or(@, PyOf(JGet(obj, "title"))),
                !.company = IF org.k = "obj" THEN Or(@, PyOf(JGet(org, "name"))) ELSE @,
                !.location = IF addr.k = "obj"
                             THEN Or(@, Join(<<44, 32>>, [n \in 1..Len(present) |-> present[n].v]))
                             ELSE @,
                !.descriptions = IF desc.k = "str" /\ Strip(desc.v) # <<>>
                                 THEN Append(@, get_text(desc.v)) ELSE @,
                !.responsibilities = @ \o items_of(JGet(obj, "responsibilities")),
                !.requirements = @ \o items_of(JOr(JGet(obj, "qualifications"),
                                                   JGet(obj, "experienceRequirements")))]

\* the nodes of one JSON-LD block: the items of its @graph, the block itself,
\* or the items of a top-level list
ld_nodes(data) ==
    IF data.k = "obj"
    THEN IF JHas(data, "@graph") /\ JGet(data, "@graph").k = "list"
         THEN JGet(data, "@graph").v ELSE <<data>>
    ELSE IF data.k = "list" THEN data.v
    ELSE <<>>

RECURSIVE fold_jobpostings(_, _)
fold_jobpostings(acc, nodes) ==
    IF nodes = <<>> THEN acc
    ELSE fold_jobpostings(handle_jobposting(acc, nodes[1]), Tail(nodes))

extract_from_json_ld(d) ==
    fold_jobpostings(EmptyTier, Flatten([n \in 1..Len(d.ld_scripts) |-> ld_nodes(d.ld_scripts[n])]))

\* _walk_json: the dicts of a JSON tree in pre-order (lists are descended
\* into but not yielded)
RECURSIVE walk_json(_)
walk_json(obj) ==
    IF obj.k = "obj"
    THEN <<obj>> \o Flatten([n \in 1..Len(obj.v) |-> walk_json(obj.v[n][2])])
    ELSE IF obj.k = "list"
    THEN Flatten([n \in 1..Len(obj.v) |-> walk_json(obj.v[n])])
    ELSE <<>>

\* the first candidate of a node for a scalar, under "cur = cur or candidate"
RECURSIVE first_truthy(_, _)
first_truthy(cur, cands) ==
    IF cands = <<>> THEN cur ELSE first_truthy(Or(cur, cands[1]), Tail(cands))

\* one node of the walk in _parse_seek_next_data
seek_node(acc, node) ==
    LET titleCand(key) ==
            IF node.k = "obj" /\ JHas(node, key) /\ JGet(node, key).k = "str"
               /\ Len(JGet(node, key).v) > 2
            THEN <<Strip(JGet(node, key).v)>> ELSE <<>>
        adv == IF node.k = "obj"
               THEN JOr(JGet(node, "advertiser"),
                        JOr(JGet(node, "company"), JGet(node, "hiringOrganization")))
               ELSE JNull
        nm == IF adv.k = "obj" THEN JOr(JGet(adv, "name"), JGet(adv, "companyName")) ELSE JNull
        companyCand == IF nm.k = "str" /\ Strip(nm.v) # <<>> THEN <<Strip(nm.v)>> ELSE <<>>
        locCand == IF node.k = "obj" /\ JHas(node, "location") /\ JGet(node, "location").k = "str"
                      /\ Len(JGet(node, "location").v) > 1
                   THEN <<Strip(JGet(node, "location").v)>> ELSE <<>>
        isStrList == node.k = "list" /\ node.v # <<>> /\ \A n \in DOMAIN node.v : node.v[n].k = "str"
        long(x) == Len(x) > 3
        texts == IF isStrList
                 THEN SelectSeq([n \in 1..Len(node.v) |-> Strip(node.v[n].v)], long) ELSE <<>>
        isResp(x) == HasWord(x, RESP_VERBS)
        isReq(x) == ~HasWord(x, RESP_VERBS) /\ HasWord(x, REQ_TOKENS)
        rich(key) ==
            IF node.k = "obj" /\ JHas(node, key) /\ JGet(node, key).k = "str"
               /\ Len(get_text(JGet(node, key).v)) > 10
            THEN <<get_text(JGet(node, key).v)>> ELSE <<>>
    IN  [acc EXCEPT
            !.title = first_truthy(@, titleCand("jobTitle") \o titleCand("title")),
            !.company = first_truthy(@, companyCand),
            !.location = first_truthy(@, locCand),
            !.responsibilities = @ \o SelectSeq(texts, isResp),
            !.requirements = @ \o SelectSeq(texts, isReq),
            !.descriptions = @ \o texts \o rich("description") \o rich("content") \o rich("body")]

RECURSIVE fold_seek(_, _)
fold_seek(acc, nodes) ==
    IF nodes = <<>> THEN acc ELSE fold_seek(seek_node(acc, nodes[1]), Tail(nodes))

parse_seek_next_data(d) ==
    IF d.next_data = JNull \/ d.next_data = BadJson THEN EmptyTier
    ELSE LET r == fold_seek(EmptyTier, walk_json(d.next_data))
         IN  [r EXCEPT !.responsibilities = DictFromKeys(@),
                       !.requirements = DictFromKeys(@),
                       !.descriptions = DictFromKeys(@)]

\* url and "seek.com.au" in url
is_seek(d) == d.url # None /\ d.url # <<>> /\ Contains(d.url, <<115, 101, 101, 107, 46, 99, 111, 109, 46, 97, 117>>)

\* text of an element or attribute under "x and x.strip()"; None when absent
stripped_or_none(x) == IF x = None \/ x = <<>> THEN None ELSE Strip(x)

extract_title(d) ==
    IF Truthy(d.og_title) THEN Strip(d.og_title)
    ELSE IF Truthy(d.title_tag) THEN Strip(d.title_tag)
    ELSE IF \E n \in DOMAIN d.body : d.body[n].tag = "h1"
    THEN Strip(d.body[CHOOSE n \in DOMAIN d.body :
                          d.body[n].tag = "h1"
                          /\ \A m \in DOMAIN d.body : d.body[m].tag = "h1" => n <= m].text)
    ELSE None

extract_meta_description(d) ==
    IF Truthy(d.meta_description) THEN Strip(d.meta_description) ELSE None

extract_company(d) ==
    IF d.company_tag # None /\ Strip(d.company_tag) # <<>> THEN Strip(d.company_tag)
    ELSE IF Truthy(d.og_site_name) THEN Strip(d.og_site_name)
    ELSE None

\* get_text(strip=True) of a data-automation element, None when absent or empty
seek_dom_field(x) == IF x # None /\ Strip(x) # <<>> THEN Strip(x) ELSE None

\* the sibling a heading is read with: the next one that is not br or hr
next_sibling(body, n) ==
    LET later == {m \in DOMAIN body : m > n /\ body[m].tag \notin {"br", "hr"}}
    IN  IF later = {} THEN 0 ELSE CHOOSE m \in later : \A q \in later : m <= q

\* the items _extract_lists_by_headings captures under the headings that Is
\* accepts
heading_items(d, resp) ==
    LET isHeading(n) == d.body[n].tag \in {"h1", "h2", "h3", "h4"}
        itemsAt(n) ==
            LET m == next_sibling(d.body, n)
            IN  IF m = 0 THEN <<>>
                ELSE IF d.body[m].tag \in {"ul", "ol"} THEN d.body[m].items
                ELSE IF d.body[m].tag = "p" THEN <<d.body[m].text>>
                ELSE <<>>
        accepts(n) ==
            IF resp THEN HasAny(d.body[n].text, HEADINGS_RESP)
            ELSE ~HasAny(d.body[n].text, HEADINGS_RESP) /\ HasAny(d.body[n].text, HEADINGS_REQ)
    IN  Flatten([n \in 1..Len(d.body) |->
                    IF isHeading(n) /\ accepts(n) THEN itemsAt(n) ELSE <<>>])

\* the <li> texts of every <ul>, in document order
generic_items(d) ==
    LET long(x) == Len(x) >= 3
    IN  SelectSeq(Flatten([n \in 1..Len(d.body) |->
                              IF d.body[n].tag = "ul" THEN d.body[n].items ELSE <<>>]), long)

extract_generic_resps(d) ==
    LET isResp(x) == HasWord(x, RESP_VERBS) IN SelectSeq(generic_items(d), isResp)

extract_generic_reqs(d) ==
    LET isReq(x) == ~HasWord(x, RESP_VERBS) /\ HasWord(x, REQ_TOKENS)
    IN  SelectSeq(generic_items(d), isReq)

extract_keywords(texts) ==
    LET lowtexts == Lower(Join(<<10>>, texts))
        found(tok) == Contains(lowtexts, tok)
        hits == SelectSeq(TECH_TOKENS, found)
        shown(tok) == IF tok \in { <<97, 119, 115>>, <<103, 99, 112>>, <<115, 113, 108>>, <<114, 111, 115>> } THEN Upper(tok)
                      ELSE Capitalize(tok)
    IN  sorted(Iter({shown(hits[n]) : n \in DOMAIN hits}, 0))

filter_questions(items) ==
    LET cleaned == [n \in 1..Len(items) |-> Strip(items[n])]
        starts == { <<104, 111, 119, 32, 109, 97, 110, 121>>, <<104, 111, 119, 32, 109, 117, 99, 104>>, <<119, 104, 97, 116, 32, 105, 115>>, <<119, 104, 97, 116, 39, 115>>, <<119, 104, 101, 110, 32, 99, 97, 110>>, <<100, 111, 32, 121, 111, 117>> }
        keep(x) == /\ x # <<>>
                   /\ x[Len(x)] # 63
                   /\ ~\E q \in starts : StartsWith(Lower(x), q)
    IN  SelectSeq(cleaned, keep)

\* the fragments one item expands to
split_item(item) ==
    LET text == Strip(item)
        colon == IF \E n \in DOMAIN text : text[n] = 58
                 THEN CHOOSE n \in DOMAIN text : text[n] = 58 /\ \A m \in 1..(n - 1) : text[m] # 58
                 ELSE 0
        head == SubSeq(text, 1, colon - 1)
        tail == SubSeq(text, colon + 1, Len(text))
        headWords == Len(Fragments(head, {n \in 1..Len(head) : IsSpace(head[n])}))
        base == IF colon > 0 /\ headWords <= 6 /\ Strip(tail) # <<>> THEN Strip(tail) ELSE text
        segments == Fragments(base, SPLIT_DELIMS(base))
        trimmed == [n \in 1..Len(segments) |-> StripChars(segments[n], {32, 46, 59, 44, 45, 8226})]
        long(x) == Len(x) > 3
        parts == SelectSeq(trimmed, long)
    IN  IF text = <<>> THEN <<>>
        ELSE IF parts # <<>> THEN parts
        ELSE <<text>>

split_compound_items(items) ==
    DictFromKeys(Flatten([n \in 1..Len(items) |-> split_item(items[n])]))

(***************************************************************************)
(* parse_html_to_jd, statement by statement.  jdst holds its local         *)
(* variables; pc is "returned" once the ParsedJD is built and "raised"     *)
(* when an exception left the function.                                    *)
(***************************************************************************)
\* responsibilities and requirements are cut to this many items
LIST_CAP == 80

NoLocals ==
    [ld |-> EmptyTier, seek |-> EmptyTier,
     title |-> None, company |-> None, location |-> None,
     resp_h |-> <<>>, req_h |-> <<>>, resp_g |-> <<>>, req_g |-> <<>>,
     responsibilities |-> <<>>, requirements |-> <<>>, desc_ld |-> <<>>,
     keywords |-> <<>>]

\* the DOM value assigned whether or not the field is already set
dom_overwrite(cur, dom) == dom

\* title = title or td (and likewise company, location)
dom_fill(cur, dom) == Or(cur, dom)

\* the three-way "or" of the scalar merge
scalar_merge(seek, ld, generic) == Or(seek, Or(ld, generic))

\* list(dict.fromkeys([*seek, *ld, *h, *g]))[:80]
list_merge(seek, ld, h, g) == Take(DictFromKeys(seek \o ld \o h \o g), LIST_CAP)

\* line 306
ExtractJsonLd ==
    /\ pc = "json_ld"
    /\ LET r == extract_from_json_ld(doc)
       IN  IF r.raised
           THEN pc' = "raised" /\ jdst' = jdst
           ELSE pc' = "seek" /\ jdst' = [jdst EXCEPT !.ld = r, !.desc_ld = r.descriptions]
    /\ UNCHANGED <<doc, profile, jd, result, prevScore, added, resumeVars, jobsVars>>

\* lines 309-314
ParseSeek ==
    /\ pc = "seek"
    /\ jdst' = [jdst EXCEPT !.seek = IF is_seek(doc) THEN parse_seek_next_data(doc) ELSE EmptyTier]
    /\ pc' = "scalars"
    /\ UNCHANGED <<doc, profile, jd, result, prevScore, added, resumeVars, jobsVars>>

\* lines 316-318
MergeScalars ==
    /\ pc = "scalars"
    /\ jdst' = [jdst EXCEPT
                  !.title = scalar_merge(jdst.seek.title, jdst.ld.title, extract_title(doc)),
                  !.company = scalar_merge(jdst.seek.company, jdst.ld.company, extract_company(doc)),
                  !.location = Or(jdst.seek.location, jdst.ld.location)]
    /\ pc' = "dom"
    /\ UNCHANGED <<doc, profile, jd, result, prevScore, added, resumeVars, jobsVars>>

\* lines 321-325
SeekDom ==
    /\ pc = "dom"
    /\ jdst' = IF (~Truthy(jdst.title) \/ ~Truthy(jdst.company) \/ ~Truthy(jdst.location))
                  /\ is_seek(doc)
               THEN [jdst EXCEPT
                       !.title = dom_fill(@, seek_dom_field(doc.dom_title)),
                       !.company = dom_fill(@, seek_dom_field(doc.dom_company)),
                       !.location = dom_fill(@, seek_dom_field(doc.dom_location))]
               ELSE jdst
    /\ pc' = "lists"
    /\ UNCHANGED <<doc, profile, jd, result, prevScore, added, resumeVars, jobsVars>>

\* lines 328-332
MergeLists ==
    /\ pc = "lists"
    /\ LET resp_h == heading_items(doc, TRUE)
           req_h == heading_items(doc, FALSE)
           resp_g == extract_generic_resps(doc)
           req_g == extract_generic_reqs(doc)
       IN  jdst' = [jdst EXCEPT
                      !.resp_h = resp_h, !.req_h = req_h, !.resp_g = resp_g, !.req_g = req_g,
                      !.responsibilities =
                          list_merge(jdst.seek.responsibilities, jdst.ld.responsibilities,
                                     resp_h, resp_g),
                      !.requirements =
                          list_merge(jdst.seek.requirements, jdst.ld.requirements, req_h, req_g)]
    /\ pc' = "fallback"
    /\ UNCHANGED <<doc, profile, jd, result, prevScore, added, resumeVars, jobsVars>>

\* line 346: the fragments of the pooled descriptions longer than 3 characters
description_bullets(pool) ==
    LET long(x) == Len(x) > 3
        bulletsOf(d) ==
            LET parts == split_bullets(d)
            IN  SelectSeq([n \in 1..Len(parts) |-> Strip(parts[n])], long)
    IN  Flatten([n \in 1..Len(pool) |-> bulletsOf(pool[n])])

\* a fallback that runs whenever there is a description
fallback_ungated(responsibilities, pool) == pool # <<>>

\* line 343: if not responsibilities and desc_ld
fallback_fires(responsibilities, pool) == responsibilities = <<>> /\ pool # <<>>

\* lines 335-354
DescFallback ==
    /\ pc = "fallback"
    /\ LET meta_desc == extract_meta_description(doc)
           pool == (IF jdst.responsibilities = <<>> /\ Truthy(meta_desc)
                    THEN Append(jdst.desc_ld, meta_desc) ELSE jdst.desc_ld)
                   \o jdst.seek.descriptions
           bullets == description_bullets(pool)
           isResp(x) == HasWord(x, RESP_VERBS)
           isReq(x) == ~HasWord(x, RESP_VERBS) /\ HasWord(x, REQ_TOKENS)
           fire == fallback_fires(jdst.responsibilities, pool)
       IN  jdst' = [jdst EXCEPT
                      !.desc_ld = pool,
                      !.responsibilities = IF fire THEN @ \o SelectSeq(bullets, isResp) ELSE @,
                      !.requirements = IF fire THEN @ \o SelectSeq(bullets, isReq) ELSE @]
    /\ pc' = "post"
    /\ UNCHANGED <<doc, profile, jd, result, prevScore, added, resumeVars, jobsVars>>

\* lines 355-360
PostProcess ==
    /\ pc = "post"
    /\ LET resps == Take(filter_questions(split_compound_items(jdst.responsibilities)), LIST_CAP)
           reqs == Take(filter_questions(split_compound_items(jdst.requirements)), LIST_CAP)
       IN  jdst' = [jdst EXCEPT
                      !.responsibilities = resps,
                      !.requirements = reqs,
                      !.keywords = extract_keywords(resps \o reqs \o jdst.desc_ld)]
    /\ pc' = "build"
    /\ UNCHANGED <<doc, profile, jd, result, prevScore, added, resumeVars, jobsVars>>

\* lines 362-369: ParsedJD(...) validates title, company and location as
\* Optional[str] and raises ValidationError on an object or a list
BuildParsedJD ==
    /\ pc = "build"
    /\ pc' = IF \A x \in {jdst.title, jdst.company, jdst.location} : x = None \/ IsStr(x)
             THEN "returned" ELSE "raised"
    /\ UNCHANGED <<jdst, doc, profile, jd, result, prevScore, added, resumeVars, jobsVars>>

NextJD ==
    \/ ExtractJsonLd
    \/ ParseSeek
    \/ MergeScalars
    \/ SeekDom
    \/ MergeLists
    \/ DescFallback
    \/ PostProcess
    \/ BuildParsedJD

(***************************************************************************)
(* Inputs of parse_html_to_jd                                              *)
(***************************************************************************)
Block(tag, text, items) == [tag |-> tag, text |-> text, items |-> items]

Urls == { None, <<104, 116, 116, 112, 115, 58, 47, 47, 119, 119, 119, 46, 115, 101, 101, 107, 46, 99, 111, 109, 46, 97, 117, 47, 106, 111, 98, 47, 49, 50, 51>>, <<104, 116, 116, 112, 115, 58, 47, 47, 106, 111, 98, 115, 46, 101, 120, 97, 109, 112, 108, 101, 46, 99, 111, 109, 47, 49, 50, 51>> }

\* a well-formed JobPosting
LdPosting ==
    JObj(<< <<"@context", JStr(<<104, 116, 116, 112, 115, 58, 47, 47, 115, 99, 104, 101, 109, 97, 46, 111, 114, 103>>)>>,
            <<"@type", JStr(<<74, 111, 98, 80, 111, 115, 116, 105, 110, 103>>)>>,
            <<"title", JStr(<<68, 97, 116, 97, 32, 65, 110, 97, 108, 121, 115, 116>>)>>,
            <<"hiringOrganization", JObj(<< <<"name", JStr(<<65, 99, 109, 101>>)>> >>)>>,
            <<"jobLocation",
              JObj(<< <<"address",
                        JObj(<< <<"addressLocality", JStr(<<77, 101, 108, 98, 111, 117, 114, 110, 101>>)>>,
                                <<"addressRegion", JNull>>,
                                <<"addressCountry", JStr(<<65, 85>>)>> >>)>> >>)>>,
            <<"description", JStr(<<60, 112, 62, 68, 101, 115, 105, 103, 110, 32, 100, 97, 115, 104, 98, 111, 97, 114, 100, 115, 46, 60, 47, 112, 62, 60, 112, 62, 83, 81, 76, 32, 101, 120, 112, 101, 114, 105, 101, 110, 99, 101, 32, 114, 101, 113, 117, 105, 114, 101, 100, 60, 47, 112, 62>>)>>,
            <<"responsibilities", JList(<< JStr(<<66, 117, 105, 108, 100, 32, 114, 101, 112, 111, 114, 116, 115>>), JStr(<<32, 98, 117, 105, 108, 100, 32, 114, 101, 112, 111, 114, 116, 115, 32>>),
                                           JStr(<<66, 117, 105, 108, 100, 32, 114, 101, 112, 111, 114, 116, 115>>) >>)>>,
            <<"qualifications", JStr(<<68, 101, 103, 114, 101, 101, 32, 105, 110, 32, 109, 97, 116, 104, 115, 10, 45, 32, 75, 110, 111, 119, 108, 101, 100, 103, 101, 32, 111, 102, 32, 83, 81, 76>>)>> >>)

\* a JobPosting whose title is an object
LdTitleObject ==
    JObj(<< <<"@type", JStr(<<74, 111, 98, 80, 111, 115, 116, 105, 110, 103>>)>>,
            <<"title", JObj(<< <<"@value", JStr(<<68, 97, 116, 97, 32, 65, 110, 97, 108, 121, 115, 116>>)>> >>)>>,
            <<"hiringOrganization", JObj(<< <<"name", JStr(<<65, 99, 109, 101>>)>> >>)>> >>)

\* a JobPosting with an address component that is a list
LdLocalityList ==
    JObj(<< <<"@type", JStr(<<74, 111, 98, 80, 111, 115, 116, 105, 110, 103>>)>>,
            <<"title", JStr(<<68, 97, 116, 97, 32, 65, 110, 97, 108, 121, 115, 116>>)>>,
            <<"jobLocation",
              JObj(<< <<"address",
                        JObj(<< <<"addressLocality", JList(<<JStr(<<77, 101, 108, 98, 111, 117, 114, 110, 101>>)>>)>>,
                                <<"addressCountry", JStr(<<65, 85>>)>> >>)>> >>)>> >>)

\* a graph wrapper holding an Organization and a JobPosting
LdGraph ==
    JObj(<< <<"@context", JStr(<<104, 116, 116, 112, 115, 58, 47, 47, 115, 99, 104, 101, 109, 97, 46, 111, 114, 103>>)>>,
            <<"@graph",
              JList(<< JObj(<< <<"@type", JStr(<<79, 114, 103, 97, 110, 105, 122, 97, 116, 105, 111, 110>>)>>,
                               <<"title", JStr(<<78, 111, 116, 32, 97, 32, 106, 111, 98>>)>> >>),
                       JObj(<< <<"@type", JList(<<JStr(<<84, 104, 105, 110, 103>>), JStr(<<74, 111, 98, 80, 111, 115, 116, 105, 110, 103>>)>>)>>,
                               <<"title", JStr(<<68, 97, 116, 97, 32, 69, 110, 103, 105, 110, 101, 101, 114>>)>>,
                               <<"hiringOrganization", JStr(<<65, 99, 109, 101>>)>>,
                               <<"description",
                                 JStr(<<77, 97, 105, 110, 116, 97, 105, 110, 32, 112, 105, 112, 101, 108, 105, 110, 101, 115, 10, 77, 97, 115, 116, 101, 114, 32, 100, 101, 103, 114, 101, 101, 32, 112, 114, 101, 102, 101, 114, 114, 101, 100, 10, 70, 117, 110, 32, 116, 101, 97, 109>>)>> >>) >>)>> >>)

LdScriptLists ==
    { <<>>,
      << LdPosting >>,
      << LdTitleObject >>,
      << LdLocalityList >>,
      << BadJson, LdGraph >> }

\* a Next.js state tree with title, advertiser, location, content and a list
\* of strings
NextDataJob ==
    JObj(<< <<"props",
              JObj(<< <<"pageProps",
                        JObj(<< <<"jobDetails",
                                  JObj(<< <<"job",
                                            JObj(<< <<"title", JStr(<<32, 83, 101, 110, 105, 111, 114, 32, 65, 110, 97, 108, 121, 115, 116, 32>>)>>,
                                                    <<"advertiser", JObj(<< <<"name", JStr(<<83, 101, 101, 107, 32, 67, 111>>)>> >>)>>,
                                                    <<"location", JStr(<<83, 121, 100, 110, 101, 121, 32, 78, 83, 87>>)>>,
                                                    <<"content", JStr(<<60, 117, 108, 62, 60, 108, 105, 62, 76, 101, 97, 100, 32, 116, 104, 101, 32, 116, 101, 97, 109, 60, 47, 108, 105, 62, 60, 108, 105, 62, 68, 101, 103, 114, 101, 101, 32, 114, 101, 113, 117, 105, 114, 101, 100, 60, 47, 108, 105, 62, 60, 47, 117, 108, 62>>)>>,
                                                    <<"bullets", JList(<< JStr(<<68, 101, 115, 105, 103, 110, 32, 112, 105, 112, 101, 108, 105, 110, 101, 115>>),
                                                                          JStr(<<70, 97, 109, 105, 108, 105, 97, 114, 32, 119, 105, 116, 104, 32, 83, 81, 76>>) >>)>> >>)>> >>)>> >>)>> >>)>> >>)

\* a state tree whose title is too short and whose company is named by
\* companyName
NextDataSparse ==
    JObj(<< <<"job", JObj(<< <<"jobTitle", JStr(<<81, 65>>)>>,
                             <<"company", JObj(<< <<"companyName", JStr(<<83, 101, 101, 107, 32, 76, 116, 100>>)>> >>)>>,
                             <<"location", JNum(3000)>> >>)>> >>)

NextDatas == { JNull, NextDataJob, NextDataSparse }

\* a page without content other than a meta description
PageBare ==
    [og_title |-> None, title_tag |-> None, og_site_name |-> None, company_tag |-> None,
     meta_description |-> <<32, 76, 101, 97, 100, 32, 112, 114, 111, 106, 101, 99, 116, 115, 32, 8226, 32, 75, 110, 111, 119, 108, 101, 100, 103, 101, 32, 111, 102, 32, 83, 81, 76, 32, 114, 101, 113, 117, 105, 114, 101, 100, 32, 45, 32, 100, 101, 112, 108, 111, 121, 32, 109, 111, 100, 101, 108, 115, 32>>,
     dom_title |-> None, dom_company |-> None, dom_location |-> None,
     body |-> <<>>]

\* a careers page with headed lists and the Seek data-automation elements
PageLists ==
    [og_title |-> None, title_tag |-> <<67, 97, 114, 101, 101, 114, 115, 32, 97, 116, 32, 65, 99, 109, 101>>, og_site_name |-> <<65, 99, 109, 101, 32, 67, 97, 114, 101, 101, 114, 115>>,
     company_tag |-> None, meta_description |-> None,
     dom_title |-> <<68, 97, 116, 97, 32, 65, 110, 97, 108, 121, 115, 116, 32, 40, 83, 101, 101, 107, 41>>, dom_company |-> <<32>>, dom_location |-> <<77, 101, 108, 98, 111, 117, 114, 110, 101, 32, 86, 73, 67>>,
     body |-> << Block("h1", <<67, 97, 114, 101, 101, 114, 115, 32, 97, 116, 32, 65, 99, 109, 101>>, <<>>),
                 Block("h2", <<75, 101, 121, 32, 82, 101, 115, 112, 111, 110, 115, 105, 98, 105, 108, 105, 116, 105, 101, 115>>, <<>>),
                 Block("br", <<>>, <<>>),
                 Block("ul", <<>>, << <<68, 101, 115, 105, 103, 110, 32, 65, 80, 73, 115>>, <<100, 101, 115, 105, 103, 110, 32, 97, 112, 105, 115>>,
                                      <<79, 119, 110, 32, 116, 104, 101, 32, 114, 111, 97, 100, 109, 97, 112, 58, 32, 112, 108, 97, 110, 32, 114, 101, 108, 101, 97, 115, 101, 115, 59, 32, 100, 101, 108, 105, 118, 101, 114, 32, 102, 101, 97, 116, 117, 114, 101, 115, 46>>,
                                      <<68, 111, 32, 121, 111, 117, 32, 101, 110, 106, 111, 121, 32, 116, 101, 97, 109, 119, 111, 114, 107, 63>> >>),
                 Block("h2", <<65, 98, 111, 117, 116, 32, 121, 111, 117>>, <<>>),
                 Block("ul", <<>>, << <<69, 120, 112, 101, 114, 105, 101, 110, 99, 101, 32, 119, 105, 116, 104, 32, 83, 81, 76>>, <<68, 101, 118, 101, 108, 111, 112, 32, 101, 120, 112, 101, 114, 105, 101, 110, 99, 101, 32, 119, 105, 116, 104, 32, 80, 121, 116, 104, 111, 110>>,
                                      <<101, 120, 112, 101, 114, 105, 101, 110, 99, 101, 32, 119, 105, 116, 104, 32, 115, 113, 108>>, <<67, 35>> >>),
                 Block("h3", <<66, 101, 110, 101, 102, 105, 116, 115>>, <<>>),
                 Block("p", <<70, 114, 101, 101, 32, 108, 117, 110, 99, 104>>, <<>>) >>]

\* a page with headed paragraphs and an ordered list
PageParagraphs ==
    [og_title |-> <<32, 65, 110, 97, 108, 121, 115, 116, 32, 114, 111, 108, 101, 32>>, title_tag |-> <<74, 111, 98, 115>>, og_site_name |-> None,
     company_tag |-> <<65, 99, 109, 101, 32, 80, 116, 121>>, meta_description |-> <<68, 101, 112, 108, 111, 121, 32, 109, 111, 100, 101, 108, 115>>,
     dom_title |-> None, dom_company |-> None, dom_location |-> None,
     body |-> << Block("h2", <<87, 104, 97, 116, 32, 121, 111, 117, 39, 108, 108, 32, 100, 111>>, <<>>),
                 Block("p", <<66, 117, 105, 108, 100, 32, 100, 97, 115, 104, 98, 111, 97, 114, 100, 115, 46, 32, 77, 97, 105, 110, 116, 97, 105, 110, 32, 114, 101, 112, 111, 114, 116, 115>>, <<>>),
                 Block("h4", <<81, 117, 97, 108, 105, 102, 105, 99, 97, 116, 105, 111, 110, 115>>, <<>>),
                 Block("hr", <<>>, <<>>),
                 Block("ol", <<>>, << <<66, 97, 99, 104, 101, 108, 111, 114, 32, 100, 101, 103, 114, 101, 101>>, <<87, 104, 97, 116, 32, 105, 115, 32, 121, 111, 117, 114, 32, 110, 111, 116, 105, 99, 101, 32, 112, 101, 114, 105, 111, 100>>,
                                      <<71, 111>> >>),
                 Block("h5", <<82, 101, 113, 117, 105, 114, 101, 109, 101, 110, 116, 115>>, <<>>),
                 Block("ul", <<>>, << <<84, 101, 97, 109, 32, 108, 117, 110, 99, 104, 101, 115>> >>) >>]

Pages == { PageBare, PageLists, PageParagraphs }

Docs ==
    { [url |-> u, ld_scripts |-> l, next_data |-> n,
       og_title |-> g.og_title, title_tag |-> g.title_tag, og_site_name |-> g.og_site_name,
       company_tag |-> g.company_tag, meta_description |-> g.meta_description,
       dom_title |-> g.dom_title, dom_company |-> g.dom_company,
       dom_location |-> g.dom_location, body |-> g.body] :
        u \in Urls, l \in LdScriptLists, n \in NextDatas, g \in Pages }

InitJD ==
    /\ pc = "json_ld"
    /\ doc \in Docs
    /\ jdst = NoLocals
    /\ profile = None
    /\ jd = None
    /\ result = NoResult
    /\ prevScore = -1
    /\ added = 0
    /\ ResumeIdle
    /\ JobsIdle

SpecJD == InitJD /\ [][NextJD]_vars

(***************************************************************************)
(* Inputs of match                                                         *)
(***************************************************************************)
\* how many JD keywords the caller adds to the profile's skills
MaxAdded == 1

Exp(role, company, bullets) == [role |-> role, company |-> company, bullets |-> bullets]

Course(skills, topics, tools) == [skills |-> skills, topics |-> topics, tools |-> tools]

SkillLists ==
    { <<>>,
      << <<80, 121, 116, 104, 111, 110>> >>,
      << <<83, 81, 76>>, <<112, 121, 116, 104, 111, 110, 51>> >> }

ExperienceLists ==
    { <<>>,
      << Exp(<<69, 110, 103, 105, 110, 101, 101, 114>>, <<65, 99, 109, 101>>,
             << <<66, 117, 105, 108, 116, 32, 65, 80, 73, 115, 32, 119, 105, 116, 104, 32, 80, 121, 116, 104, 111, 110, 32, 97, 110, 100, 32, 83, 81, 76>>,
                <<84, 101, 97, 109, 32, 115, 117, 112, 112, 111, 114, 116, 32, 119, 105, 116, 104, 32, 112, 121, 116, 104, 111, 110, 51>> >>) >>,
      << Exp(None, <<32>>,
             << <<80, 121, 116, 104, 111, 110, 32, 115, 99, 114, 105, 112, 116, 115>>, <<>>, <<112, 121, 116, 104, 111, 110, 32, 116, 111, 111, 108, 105, 110, 103>>, <<80, 121, 116, 104, 111, 110, 32, 115, 99, 114, 105, 112, 116, 115>>,
                <<65, 87, 83, 32, 97, 110, 100, 32, 68, 111, 99, 107, 101, 114>>, <<77, 111, 114, 101, 32, 80, 89, 84, 72, 79, 78>> >>),
         Exp(<<76, 101, 97, 100>>, <<>>, << <<69, 120, 112, 101, 114, 105, 101, 110, 99, 101, 32, 119, 105, 116, 104, 32, 51, 43, 32, 116, 101, 97, 109, 115>> >>) >> }

\* courses and projects of a profile: none, or one course and one project
CourseProjectLists ==
    { <<  <<>>, <<>>  >>,
      <<  << Course(<< <<112, 121, 116, 104, 111, 110>>, <<97, 119, 115>>, <<102, 97, 115, 116, 97, 112, 105>>, <<68, 111, 99, 107, 101, 114>> >>,
                    << <<82, 101, 97, 99, 116>>, <<74, 97, 118, 97>> >>,
                    << <<84, 121, 112, 101, 83, 99, 114, 105, 112, 116>> >>) >>,
          << Exp(None, <<80, 114, 111, 106, 101, 99, 116, 115>>, << <<70, 97, 115, 116, 65, 80, 73, 32, 115, 101, 114, 118, 105, 99, 101, 32, 105, 110, 32, 67, 43, 43, 32, 111, 110, 32, 108, 105, 110, 117, 120, 95, 97, 114, 109>> >>) >>  >> }

KeywordLists ==
    { <<>>,
      << <<112, 121, 116, 104, 111, 110>>, <<115, 113, 108>> >>,
      << <<80, 121, 116, 104, 111, 110>>, <<65, 87, 83>>, <<70, 97, 115, 116, 65, 80, 73>>, <<68, 111, 99, 107, 101, 114>>, <<82, 101, 97, 99, 116>>, <<74, 97, 118, 97>>, <<84, 121, 112, 101, 83, 99, 114, 105, 112, 116>> >>,
      << <<99, 43, 43>>, <<>>, <<100, 97, 116, 97, 95, 115, 99, 105, 101, 110, 99, 101>>, <<82>> >> }

RequirementLists ==
    { <<>>,
      << <<51, 43, 32, 121, 101, 97, 114, 115, 32, 101, 120, 112, 101, 114, 105, 101, 110, 99, 101, 32, 119, 105, 116, 104, 32, 80, 121, 116, 104, 111, 110, 32, 97, 110, 100, 32, 83, 81, 76>> >>,
      << <<75, 110, 111, 119, 108, 101, 100, 103, 101, 32, 111, 102, 32, 65, 87, 83, 44, 32, 68, 111, 99, 107, 101, 114, 44, 32, 75, 117, 98, 101, 114, 110, 101, 116, 101, 115, 44, 32, 84, 101, 114, 114, 97, 102, 111, 114, 109, 44, 32, 76, 105, 110, 117, 120, 44, 32, 82, 101, 97, 99, 116, 44, 32, 84, 121, 112, 101, 83, 99, 114, 105, 112, 116, 44, 32, 74, 97, 118, 97, 32, 97, 110, 100, 32, 112, 121, 116, 104, 111, 110, 51>> >> }

ResponsibilityLists ==
    { <<>>,
      << <<66, 117, 105, 108, 116, 32, 65, 80, 73, 115, 32, 119, 105, 116, 104, 32, 83, 81, 76>> >> }

Profiles ==
    { [skills |-> s, courses |-> cp[1], experience |-> e, projects |-> cp[2], location |-> l] :
        s \in SkillLists, cp \in CourseProjectLists, e \in ExperienceLists,
        l \in {None, <<77, 101, 108, 98, 111, 117, 114, 110, 101, 32, 86, 73, 67>>} }

JDs ==
    [keywords : KeywordLists, requirements : RequirementLists,
     responsibilities : ResponsibilityLists, location : {<<109, 101, 108, 98, 111, 117, 114, 110, 101>>}]

(***************************************************************************)
(* The calls of match: POST /match runs match on the posted profile and   *)
(* job description; the caller may then add one of the JD's keywords to    *)
(* the profile's skills and post again.                                    *)
(***************************************************************************)
InitMatch ==
    /\ pc = "ready"
    /\ profile \in Profiles
    /\ jd \in JDs
    /\ result = NoResult
    /\ prevScore = -1
    /\ added = 0
    /\ doc = None
    /\ jdst = NoLocals
    /\ ResumeIdle
    /\ JobsIdle

\* one call of match, in a process with some string-hash seed
Match ==
    /\ pc = "ready"
    /\ \E seed \in 0..MaxHashSeed : result' = match(profile, jd, seed)
    /\ pc' = "matched"
    /\ UNCHANGED <<profile, jd, prevScore, added, doc, jdst, resumeVars, jobsVars>>

\* the caller appends a keyword of the JD to the profile's skills
AddSkill ==
    /\ pc = "matched"
    /\ added < MaxAdded
    /\ \E i \in DOMAIN jd.keywords :
           profile' = [profile EXCEPT !.skills = Append(@, jd.keywords[i])]
    /\ prevScore' = result.score
    /\ added' = added + 1
    /\ result' = NoResult
    /\ pc' = "ready"
    /\ UNCHANGED <<jd, doc, jdst, resumeVars, jobsVars>>

NextMatch == Match \/ AddSkill

SpecMatch == InitMatch /\ [][NextMatch]_vars

(***************************************************************************)
(* Properties of match                                                     *)
(***************************************************************************)
Matched == pc = "matched"

EndsWith(s, suffix) ==
    Len(suffix) <= Len(s) /\ SubSeq(s, Len(s) - Len(suffix) + 1, Len(s)) = suffix

\* C1: every result of match carries an integer score with 0 <= score <= 100.
C1_ScoreBounds == Matched => result.score \in 0..100

\* a call that scored 100: every keyword and every requirement token is in
\* the profile
C1_Witness ==
    Matched /\ result.score = 100 /\ normalize_jd_key(jd) # {} /\ normalize_jd_req(jd) # {}

\* C2: the score is the integer nearest to
\* 100 * (0.6 * |K \cap P| / max(1,|K|) + 0.4 * |R \cap P| / max(1,|R|)), with K, R
\* and P the unfiltered token sets, so stop-words and digit tokens count.
C2_ScoreFormula ==
    Matched =>
        LET P == normalize_profile(profile)
            K == normalize_jd_key(jd)
            R == normalize_jd_req(jd)
            dK == Max(1, Cardinality(K))
            dR == Max(1, Cardinality(R))
            num == 60 * Cardinality(K \cap P) * dR + 40 * Cardinality(R \cap P) * dK
            den == dK * dR
            diff == result.score * den - num
        IN  2 * diff <= den /\ 2 * (-diff) <= den

\* a call in which a stop-word and a digit-containing token are both hits
C2_Witness ==
    /\ Matched
    /\ LET HR == normalize_jd_req(jd) \cap normalize_profile(profile)
       IN  /\ \E t \in HR : t \in STOP_TOKENS
           /\ \E t \in HR : \E i \in 1..Len(t) : IsDigit(t[i])
           /\ \E t \in HR : clean_token(t) # None

\* C3: the call after a JD keyword was appended to the profile's skills
\* scores at least what the call before it scored.
C3_ScoreMonotone == (Matched /\ prevScore >= 0) => result.score >= prevScore

\* an appended keyword that raised the score
C3_Witness == Matched /\ prevScore >= 0 /\ result.score > prevScore

ScenarioA ==
    /\ profile.skills = << <<80, 121, 116, 104, 111, 110>> >>
    /\ profile.experience = <<>> /\ profile.courses = <<>> /\ profile.projects = <<>>
    /\ jd.keywords = << <<112, 121, 116, 104, 111, 110>>, <<115, 113, 108>> >>
    /\ jd.requirements = << <<51, 43, 32, 121, 101, 97, 114, 115, 32, 101, 120, 112, 101, 114, 105, 101, 110, 99, 101, 32, 119, 105, 116, 104, 32, 80, 121, 116, 104, 111, 110, 32, 97, 110, 100, 32, 83, 81, 76>> >>
    /\ jd.responsibilities = <<>>

\* C4: a skill equal to a JD keyword up to case is a keyword hit; in scenario A
\* the keyword hits are exactly {"python"}, the requirement hits are not empty
\* and the score lies strictly between 0 and 100.
C4_ScenarioA ==
    Matched =>
        \A seed \in 0..MaxHashSeed :
            /\ \A i \in DOMAIN profile.skills : \A k \in DOMAIN jd.keywords :
                   (jd.keywords[k] # <<>> /\ Lower(profile.skills[i]) = Lower(jd.keywords[k]))
                       => Lower(jd.keywords[k]) \in Range(hit_key_of(profile, jd, seed))
            /\ ScenarioA =>
                   /\ Range(hit_key_of(profile, jd, seed)) = { <<112, 121, 116, 104, 111, 110>> }
                   /\ hit_req_of(profile, jd, seed) # <<>>
                   /\ result.score > 0 /\ result.score < 100

C4_Witness == Matched /\ ScenarioA /\ result.score = 37

\* C5: match returns a result for every input, and the result (score, reasons,
\* gaps, recommendations, truncated lists included) is the same whatever the
\* iteration order of the sets.
C5_Deterministic ==
    Matched =>
        /\ result # NoResult
        /\ \A seed \in 0..MaxHashSeed : match(profile, jd, seed) = result

\* a call whose matched-skills line and a gap line are truncated, or whose
\* evidence is cut to three lines
C5_Witness ==
    /\ Matched
    /\ Len(result.reasons) >= 4
    /\ EndsWith(result.reasons[1], ELLIPSIS)
    /\ Len(evidence_pairs(Range(filter_tokens(hit_key_of(profile, jd, 0)))
                            \cup Range(filter_tokens(hit_req_of(profile, jd, 0))),
                          profile, 0)) > 3

(***************************************************************************)
(* Properties of parse_html_to_jd                                          *)
(***************************************************************************)
Returned == pc = "returned"

Ended == pc \in {"returned", "raised"}

\* the titles of the JobPosting nodes of the document, in document order
posting_titles(d) ==
    LET nodes == Flatten([n \in 1..Len(d.ld_scripts) |-> ld_nodes(d.ld_scripts[n])])
        typeOf(x) == JOr(JGet(x, "@type"), JGet(x, "type"))
        isPosting(x) ==
            /\ x.k = "obj"
            /\ \/ typeOf(x).k = "str" /\ Contains(typeOf(x).v, <<74, 111, 98, 80, 111, 115, 116, 105, 110, 103>>)
               \/ typeOf(x).k = "list"
                  /\ \E n \in DOMAIN typeOf(x).v :
                         typeOf(x).v[n].k = "str" /\ Contains(typeOf(x).v[n].v, <<74, 111, 98, 80, 111, 115, 116, 105, 110, 103>>)
            /\ JTruthy(JGet(x, "title"))
        postings == SelectSeq(nodes, isPosting)
    IN  [n \in 1..Len(postings) |-> PyOf(JGet(postings[n], "title"))]

\* C6: the JSON-LD tier is the first tier of every scalar: a non-empty title,
\* company or location of a JobPosting block is the value returned, also on a
\* recognized host whose embedded state yields another value.
C6_JsonLdFirst ==
    Returned =>
        \A f \in {"title", "company", "location"} :
            Truthy(jdst.ld[f]) => jdst[f] = jdst.ld[f]

\* C7: on a host that is not recognized, a document with a JobPosting block
\* that has a non-empty title yields that title.
C7_JobPostingTitle ==
    (Ended /\ ~is_seek(doc) /\ posting_titles(doc) # <<>>)
        => (Returned /\ jdst.title = posting_titles(doc)[1])

LowerAll(xs) == [n \in 1..Len(xs) |-> Lower(xs[n])]

NoDuplicates(xs) == \A m, n \in DOMAIN xs : m # n => xs[m] # xs[n]

\* C8: in a returned ParsedJD neither responsibilities nor requirements holds
\* two items that are equal ignoring case.
C8_CaseInsensitiveDedup ==
    Returned =>
        /\ NoDuplicates(LowerAll(jdst.responsibilities))
        /\ NoDuplicates(LowerAll(jdst.requirements))

\* C9: parse_html_to_jd never raises; a ParsedJD is returned for every document.
C9_NeverRaises == pc # "raised"

\* C10: a scalar that holds a non-empty value is not blanked by a later tier
\* (a non-empty tier value gives a non-empty field), and every item an earlier
\* tier contributed to responsibilities or requirements is in the list after
\* each later tier is merged in, as long as the cap is not reached.
C10_UnionMonotone ==
    [][ /\ \A f \in {"title", "company", "location"} :
               /\ Truthy(jdst[f]) => Truthy(jdst'[f])
               /\ (pc = "scalars" /\ (Truthy(jdst.ld[f]) \/ Truthy(jdst.seek[f])))
                      => Truthy(jdst'[f])
        /\ (pc = "lists" /\ pc' = "fallback") =>
               /\ Len(jdst'.responsibilities) < LIST_CAP =>
                      Range(jdst.seek.responsibilities \o jdst.ld.responsibilities
                            \o jdst'.resp_h \o jdst'.resp_g)
                          \subseteq Range(jdst'.responsibilities)
               /\ Len(jdst'.requirements) < LIST_CAP =>
                      Range(jdst.seek.requirements \o jdst.ld.requirements
                            \o jdst'.req_h \o jdst'.req_g)
                          \subseteq Range(jdst'.requirements)
        /\ (pc = "fallback" /\ pc' = "post") =>
               /\ Range(jdst.responsibilities) \subseteq Range(jdst'.responsibilities)
               /\ Range(jdst.requirements) \subseteq Range(jdst'.requirements)
      ]_vars

\* the DOM tier has filled the location of a Seek page and left alone the
\* title an earlier tier had set, although the DOM offers another title
C10_Witness ==
    /\ pc = "lists"
    /\ is_seek(doc)
    /\ Truthy(jdst.title)
    /\ Truthy(seek_dom_field(doc.dom_title))
    /\ jdst.title # seek_dom_field(doc.dom_title)
    /\ ~Truthy(Or(jdst.seek.location, jdst.ld.location))
    /\ jdst.location = seek_dom_field(doc.dom_location)
    /\ Truthy(jdst.location)

(***************************************************************************)
(* modules/profile/text_preserve.py: line normalization and section        *)
(* assignment.  The input is the list text.splitlines().                   *)
(***************************************************************************)
\* the white space of the inputs
SPACES == {32, 9, 10, 13}

Least(S) == CHOOSE i \in S : \A j \in S : i <= j

Greatest(S) == CHOOSE i \in S : \A j \in S : i >= j

\* s[n:]
Drop(s, n) == SubSeq(s, n + 1, Len(s))

\* the items of s at the indexes K, in order
Pick(s, K) ==
    LET nth(n) == CHOOSE i \in K : Cardinality({q \in K : q < i}) = n - 1
    IN  [n \in 1..Cardinality(K) |-> s[nth(n)]]

\* the length of the longest prefix of s made of characters of C
LeadRun(s, C) == Least({i \in 0..Len(s) : i = Len(s) \/ s[i + 1] \notin C})

\* the length of the longest suffix of s made of characters of C
TailRun(s, C) == Least({i \in 0..Len(s) : i = Len(s) \/ s[Len(s) - i] \notin C})

\* re.sub("[C]+", r, s) for a one-character replacement r
SubRuns(s, C, r) ==
    LET keep == {i \in 1..Len(s) : s[i] \notin C \/ i = 1 \/ s[i - 1] \notin C}
        t == [i \in 1..Len(s) |-> IF s[i] \in C THEN r ELSE s[i]]
    IN  Pick(t, keep)

\* s.count(c) for a character c
CountChar(s, c) == Cardinality({i \in 1..Len(s) : s[i] = c})

\* hay.endswith(needle)
EndsWithStr(hay, needle) ==
    Len(needle) <= Len(hay) /\ Drop(hay, Len(hay) - Len(needle)) = needle

\* the bullet glyph the segmenter normalizes to
BULLET == 8226

\* lines 15-23: strip, drop the empty lines, normalize the bullet glyphs
\* and put the bullets of a line that holds several on lines of their own
normalize_line(ln) ==
    LET normalized == SubRuns(ln, {65533, 61623, 183}, BULLET)
        seps == {i \in 1..Len(normalized) :
                    /\ normalized[i] = BULLET
                    /\ i < Len(normalized)
                    /\ normalized[i + 1] \in SPACES}
        pieces == Fragments(normalized, seps)
        parts == SelectSeq([n \in 1..Len(pieces) |-> Strip(pieces[n])],
                           LAMBDA p : p # <<>>)
    IN  IF CountChar(normalized, BULLET) >= 2 /\ StartsWith(Strip(normalized), <<BULLET>>)
        THEN [n \in 1..Len(parts) |-> <<BULLET, 32>> \o parts[n]]
        ELSE <<normalized>>

normalize_lines(txt) ==
    LET stripped == [n \in 1..Len(txt) |-> Strip(txt[n])]
        raw_lines == SelectSeq(stripped, LAMBDA l : l # <<>>)
    IN  Flatten([n \in 1..Len(raw_lines) |-> normalize_line(raw_lines[n])])

\* lines 27-30
norm_header(s) ==
    LET s1 == Drop(s, LeadRun(s, {45, 8226, 183, 42, 8212, 8211} \cup SPACES))
        s2 == Lower(StripChars(Strip(s1), {58, 65306, 59}))
    IN  SubRuns(s2, SPACES, 32)

\* lines 32-39: hdr_alias in the order of the dict
HDR_ALIAS ==
    << [key |-> "education", name |-> <<101, 100, 117, 99, 97, 116, 105, 111, 110>>, aliases |-> {<<101, 100, 117, 99, 97, 116, 105, 111, 110>>}],
       [key |-> "experience", name |-> <<101, 120, 112, 101, 114, 105, 101, 110, 99, 101>>,
        aliases |-> {<<101, 120, 112, 101, 114, 105, 101, 110, 99, 101>>, <<119, 111, 114, 107, 32, 101, 120, 112, 101, 114, 105, 101, 110, 99, 101>>, <<101, 109, 112, 108, 111, 121, 109, 101, 110, 116, 32, 104, 105, 115, 116, 111, 114, 121>>}],
       [key |-> "projects", name |-> <<112, 114, 111, 106, 101, 99, 116, 115>>, aliases |-> {<<112, 114, 111, 106, 101, 99, 116, 115>>, <<112, 114, 111, 106, 101, 99, 116>>}],
       [key |-> "skills", name |-> <<115, 107, 105, 108, 108, 115>>, aliases |-> {<<115, 107, 105, 108, 108, 115>>, <<115, 107, 105, 108, 108>>}],
       [key |-> "languages", name |-> <<108, 97, 110, 103, 117, 97, 103, 101, 115>>,
        aliases |-> {<<108, 97, 110, 103, 117, 97, 103, 101, 115>>, <<108, 97, 110, 103, 117, 97, 103, 101>>}],
       [key |-> "certifications", name |-> <<99, 101, 114, 116, 105, 102, 105, 99, 97, 116, 105, 111, 110, 115>>,
        aliases |-> {<<99, 101, 114, 116, 105, 102, 105, 99, 97, 116, 105, 111, 110, 115>>, <<99, 101, 114, 116, 105, 102, 105, 99, 97, 116, 101, 115>>}] >>

\* no section: the None of current and of which_section
NoSection == "none"

\* lines 41-46
which_section(s) ==
    LET section_of(v, alias) ==
            LET hit == {n \in 1..Len(alias) :
                           \/ v = alias[n].name
                           \/ v \in alias[n].aliases
                           \/ StartsWith(v, alias[n].name \o <<32>>)}
            IN  IF hit = {} THEN NoSection ELSE alias[Least(hit)].key
    IN  section_of(norm_header(s), HDR_ALIAS)

\* the end of the match of "w1\s+w2" at the start of low, or 0
two_words_end(low, w1, w2) ==
    LET k == LeadRun(Drop(low, Len(w1)), SPACES)
    IN  IF StartsWith(low, w1) /\ k >= 1 /\ StartsWith(Drop(low, Len(w1) + k), w2)
        THEN Len(w1) + k + Len(w2) ELSE 0

\* line 52: header_re.match(ln); h is the text of group h, rest that of
\* group rest, ok tells whether the line matches
header_re_match(ln) ==
    LET word_end(low, single, work, employment) ==
            LET hits == {n \in 1..Len(single) : StartsWith(low, single[n])}
            IN  IF hits # {} THEN Len(single[Least(hits)])
                ELSE IF work > 0 THEN work
                ELSE employment
        unspaced(r) == Drop(r, LeadRun(r, SPACES))
        uncolon(r) == IF r # <<>> /\ r[1] \in {58, 65306} THEN Tail(r) ELSE r
        groups(e) == [ok |-> e > 0, h |-> SubSeq(ln, 1, e),
                      rest |-> unspaced(uncolon(unspaced(Drop(ln, e))))]
        of_low(low) ==
            groups(word_end(low,
                            << <<101, 100, 117, 99, 97, 116, 105, 111, 110>>, <<101, 120, 112, 101, 114, 105, 101, 110, 99, 101>>, <<112, 114, 111, 106, 101, 99, 116, 115>>, <<115, 107, 105, 108, 108, 115>>,
                               <<108, 97, 110, 103, 117, 97, 103, 101, 115>>, <<99, 101, 114, 116, 105, 102, 105, 99, 97, 116, 105, 111, 110, 115>>, <<99, 101, 114, 116, 105, 102, 105, 99, 97, 116, 101, 115>> >>,
                            two_words_end(low, <<119, 111, 114, 107>>, <<101, 120, 112, 101, 114, 105, 101, 110, 99, 101>>),
                            two_words_end(low, <<101, 109, 112, 108, 111, 121, 109, 101, 110, 116>>, <<104, 105, 115, 116, 111, 114, 121>>)))
    IN  of_low(Lower(ln))

EmptyBucket ==
    [education |-> <<>>, experience |-> <<>>, projects |-> <<>>, skills |-> <<>>,
     languages |-> <<>>, certifications |-> <<>>]

\* lines 56-57: the section a matched header word opens
header_section(h) ==
    LET experience(low) == IF low = <<119, 111, 114, 107, 32, 101, 120, 112, 101, 114, 105, 101, 110, 99, 101>> THEN <<101, 120, 112, 101, 114, 105, 101, 110, 99, 101>> ELSE low
        section_of(h2, alias) ==
            LET keys == {n \in 1..Len(alias) : alias[n].name = h2}
            IN  IF keys # {} THEN alias[Least(keys)].key ELSE which_section(h2)
    IN  section_of(experience(Lower(h)), HDR_ALIAS)

\* lines 53-69, one line: st holds bucket, preamble and current
assign_line(st, ln) ==
    LET rules(ok, cur, rest, sec) ==
            IF ok
            THEN IF cur # NoSection /\ rest # <<>>
                 THEN [st EXCEPT !.current = cur, !.bucket[cur] = Append(@, rest)]
                 ELSE [st EXCEPT !.current = cur]
            ELSE IF sec # NoSection THEN [st EXCEPT !.current = sec]
            ELSE IF st.current # NoSection
                 THEN [st EXCEPT !.bucket[st.current] = Append(@, ln)]
            ELSE [st EXCEPT !.preamble = Append(@, ln)]
        of_match(m) == rules(m.ok, header_section(m.h), Strip(m.rest), which_section(ln))
    IN  of_match(header_re_match(ln))

\* lines 48-69
RECURSIVE assign_sections(_, _)
assign_sections(st, lines) ==
    IF lines = <<>> THEN st
    ELSE assign_sections(assign_line(st, lines[1]), Tail(lines))

(***************************************************************************)
(* modules/profile/text_preserve.py: the line classifiers                  *)
(***************************************************************************)
\* the characters of BULLET_LEAD
BULLET_GLYPHS == {45, 8226, 183, 42, 8212, 8211, 8227, 9642, 9679, 9670}

\* line 76: the length of the match of BULLET_LEAD at the start of s, or 0
bullet_lead(s) ==
    LET k1 == LeadRun(s, SPACES)
        k2 == LeadRun(Drop(s, k1), BULLET_GLYPHS)
        k3 == LeadRun(Drop(s, k1 + k2), SPACES)
    IN  IF k2 >= 1 /\ k3 >= 1 THEN k1 + k2 + k3 ELSE 0

\* lines 78-79
is_bullet(s) == bullet_lead(s) > 0

\* lines 81-82
clean_bullet(s) == Strip(Drop(s, bullet_lead(s)))

\* four digits at t[i..i+3]
Digits4(t, i) == i >= 1 /\ i + 3 <= Len(t) /\ \A k \in i..(i + 3) : IsDigit(t[k])

\* lines 84-85
is_year_token(s) == Len(s) = 4 /\ Digits4(s, 1)

\* lines 87-88
is_present_token(s) == Lower(Strip(s)) \in {<<112, 114, 101, 115, 101, 110, 116>>, <<99, 117, 114, 114, 101, 110, 116>>}

\* \b between t[i-1] and t[i]
Boundary(t, i) ==
    LET word(k) == k >= 1 /\ k <= Len(t) /\ WordCh(t[k])
    IN  word(i - 1) # word(i)

\* the first index from i on that holds no white space
SkipSpaces(t, i) == i + LeadRun(Drop(t, i - 1), SPACES)

\* line 72: MONTH_RE, the three-letter openings
MONTHS ==
    {<<106, 97, 110>>, <<102, 101, 98>>, <<109, 97, 114>>, <<97, 112, 114>>, <<109, 97, 121>>, <<106, 117, 110>>, <<106, 117, 108>>, <<97, 117, 103>>,
     <<115, 101, 112>>, <<111, 99, 116>>, <<110, 111, 118>>, <<100, 101, 99>>}

\* the end of the match of MONTH_RE at t[i], followed by a character that
\* is no letter; 0 if there is none
month_end(t, i) ==
    IF i >= 1 /\ i + 2 <= Len(t) /\ Lower(SubSeq(t, i, i + 2)) \in MONTHS
    THEN i - 1 + LeadRun(Drop(t, i - 1), 65..90 \cup 97..122)
    ELSE 0

\* (\d{4}|Present|Current)\b at t[j]: the end of the match, or 0
range_end_token(t, j) ==
    IF Digits4(t, j) /\ Boundary(t, j + 4) THEN j + 3
    ELSE IF /\ j >= 1 /\ j + 6 <= Len(t)
            /\ Lower(SubSeq(t, j, j + 6)) \in {<<112, 114, 101, 115, 101, 110, 116>>, <<99, 117, 114, 114, 101, 110, 116>>}
            /\ Boundary(t, j + 7)
         THEN j + 6
    ELSE 0

\* [-~to] and the dashes and CJK words of line 95, under re.I
RANGE_SEP == {45, 126, 8211, 8212, 116, 111, 84, 79, 33267, 21040}

\* [-~] and the dashes of lines 99 and 104
DASHES == {45, 126, 8211, 8212}

NoRange == [ok |-> FALSE, a |-> None, b |-> None]

\* one element of the patterns of lines 95, 99 and 104 at t[i]: the index
\* after its match, or 0 when it does not match
pattern_step(t, i, el) ==
    CASE el = "b" -> IF Boundary(t, i) THEN i ELSE 0
      [] el = "d4" -> IF Digits4(t, i) THEN i + 4 ELSE 0
      [] el = "s*" -> SkipSpaces(t, i)
      [] el = "s+" -> IF SkipSpaces(t, i) > i THEN SkipSpaces(t, i) ELSE 0
      [] el = "month" -> IF month_end(t, i) > 0 THEN month_end(t, i) + 1 ELSE 0
      [] el = "dash" -> IF i <= Len(t) /\ t[i] \in DASHES THEN i + 1 ELSE 0
      [] el = "sep" -> IF i > Len(t) \/ t[i] \notin RANGE_SEP THEN 0
                       ELSE IF i + 1 <= Len(t) /\ t[i + 1] \in RANGE_SEP THEN i + 2
                       ELSE i + 1
      [] el = "end" -> IF range_end_token(t, i) > 0 THEN range_end_token(t, i) + 1 ELSE 0
      [] el = "(" -> IF i <= Len(t) /\ t[i] = 40 THEN i + 1 ELSE 0
      [] el = ")" -> IF i <= Len(t) /\ t[i] = 41 THEN i + 1 ELSE 0

\* the indices after the elements of a pattern matched one after the other
\* from t[i] on; the list stops at the element that does not match
RECURSIVE pattern_ends(_, _, _)
pattern_ends(t, i, els) ==
    LET rest(j) == <<j>> \o pattern_ends(t, j, Tail(els))
    IN  IF els = <<>> \/ i = 0 THEN <<>> ELSE rest(pattern_step(t, i, els[1]))

\* the pattern of n elements matched
matched(ends, n) == Len(ends) = n /\ ends[n] > 0

\* line 97
present_or(b) == IF is_present_token(b) THEN <<80, 114, 101, 115, 101, 110, 116>> ELSE b

\* line 95 with its match at t[i]
year_range_at(t, i) ==
    LET groups(e) ==
            IF matched(e, 7)
            THEN [ok |-> TRUE, a |-> SubSeq(t, i, i + 3),
                  b |-> present_or(SubSeq(t, e[6], e[7] - 1))]
            ELSE NoRange
    IN  groups(pattern_ends(t, i, <<"b", "d4", "b", "s*", "sep", "s*", "end">>))

\* line 99 with its match at t[i]
month_range_at(t, i) ==
    LET groups(e) ==
            IF matched(e, 10)
            THEN [ok |-> TRUE,
                  a |-> SubSeq(t, i, e[2] - 1) \o <<32>> \o SubSeq(t, e[3], e[4] - 1),
                  b |-> IF is_present_token(SubSeq(t, e[9], e[10] - 1)) THEN <<80, 114, 101, 115, 101, 110, 116>>
                        ELSE SubSeq(t, e[7], e[8] - 1) \o <<32>>
                                 \o SubSeq(t, e[9], e[10] - 1)]
            ELSE NoRange
    IN  groups(pattern_ends(t, i, <<"b", "month", "s+", "d4", "s*", "dash", "s*", "month",
                                    "s+", "end">>))

\* \((?:\s*)(MONTH)\s*[-~]\s*(MONTH)(?:\s*)\) with its match at t[p]
month_pair_at(t, p) ==
    LET groups(e) ==
            IF matched(e, 9)
            THEN [ok |-> TRUE, a |-> SubSeq(t, e[2], e[3] - 1),
                  b |-> SubSeq(t, e[6], e[7] - 1)]
            ELSE NoRange
    IN  groups(pattern_ends(t, p, <<"(", "s*", "month", "s*", "dash", "s*", "month", "s*",
                                    ")">>))

\* re.search: the match at the least index of matches, the result at each
\* index of the text
leftmost(matches) ==
    LET hits == {i \in DOMAIN matches : matches[i].ok}
    IN  IF hits = {} THEN NoRange ELSE matches[Least(hits)]

\* the match at the greatest index of matches
rightmost(matches) ==
    LET hits == {i \in DOMAIN matches : matches[i].ok}
    IN  IF hits = {} THEN NoRange ELSE matches[Greatest(hits)]

\* line 104 with its match at t[i]: .* is greedy, so the last bracket that
\* matches is taken
year_months_at(t, i) ==
    LET dated(m, year) ==
            IF Digits4(t, i) /\ Boundary(t, i) /\ Boundary(t, i + 4) /\ m.ok
            THEN [ok |-> TRUE, a |-> m.a \o <<32>> \o year, b |-> m.b \o <<32>> \o year]
            ELSE NoRange
    IN  dated(rightmost([p \in (i + 4)..Len(t) |-> month_pair_at(t, p)]), SubSeq(t, i, i + 3))

\* line 94
dashes_normalized(u) ==
    [i \in 1..Len(u) |-> IF u[i] \in (8208..8213) \cup {8722} THEN 45 ELSE u[i]]

\* lines 92-110 on the stripped text with its dashes normalized
search_date_range(t) ==
    LET first(m1, m2, m3) ==
            IF t = <<>> THEN NoRange
            ELSE IF m1.ok THEN m1
            ELSE IF m2.ok THEN m2
            ELSE IF m3.ok THEN m3
            ELSE IF is_year_token(t) THEN [ok |-> TRUE, a |-> t, b |-> None]
            ELSE NoRange
    IN  first(leftmost([i \in 1..Len(t) |-> year_range_at(t, i)]),
              leftmost([i \in 1..Len(t) |-> month_range_at(t, i)]),
              leftmost([i \in 1..Len(t) |-> year_months_at(t, i)]))

\* lines 90-110; ok is "dr and any(dr)"
date_range_from_line(s) == search_date_range(dashes_normalized(Strip(s)))

SCHOOL_WORDS ==
    {<<117, 110, 105, 118, 101, 114, 115, 105, 116, 121>>, <<99, 111, 108, 108, 101, 103, 101>>, <<105, 110, 115, 116, 105, 116, 117, 116, 101>>, <<117, 112, 32, 101, 100, 117, 99, 97, 116, 105, 111, 110>>, <<104, 105, 103, 104, 32, 115, 99, 104, 111, 111, 108>>,
     <<115, 99, 104, 111, 111, 108>>}

\* lines 112-114
looks_like_school(s) ==
    /\ \E k \in SCHOOL_WORDS : Contains(Lower(s), k)
    /\ \E i \in 1..Len(s) : IsAlpha(s[i])

\* lines 116-118
looks_like_degree(s) ==
    \/ StartsWith(Lower(s), <<109, 97, 115, 116, 101, 114, 32, 111, 102>>)
    \/ StartsWith(Lower(s), <<98, 97, 99, 104, 101, 108, 111, 114, 32, 111, 102>>)
    \/ StartsWith(Lower(s), <<102, 111, 117, 110, 100, 97, 116, 105, 111, 110, 32, 112, 114, 111, 103, 114, 97, 109>>)
    \/ Contains(Lower(s), <<103, 114, 97, 100, 117, 97, 116, 105, 111, 110, 32, 99, 101, 114, 116, 105, 102, 105, 99, 97, 116, 101>>)

\* line 122: the text of group 1 of re.search(r"\((.+?)\)", s), or None
first_parenthetical(s) ==
    LET opens == {i \in 1..Len(s) : s[i] = 40 /\ \E j \in (i + 2)..Len(s) : s[j] = 41}
        i == Least(opens)
        j == Least({q \in (i + 2)..Len(s) : s[q] = 41})
    IN  IF opens = {} THEN None ELSE SubSeq(s, i + 1, j - 1)

\* lines 120-125; an empty degree or major is None
split_degree_major(s) ==
    LET t == Strip(s)
        m == first_parenthetical(t)
        major == IF m = None THEN None ELSE Strip(m)
        head == Strip(SubSeq(t, 1, Least({i \in 1..(Len(t) + 1) : i > Len(t) \/ t[i] = 40}) - 1))
        degree == SubSeq(head, 1, Len(head) - TailRun(head, {44, 59, 46}))
    IN  [degree |-> Or(degree, None), major |-> Or(major, None)]

ROLE_WORDS ==
    {<<105, 110, 116, 101, 114, 110>>, <<101, 110, 103, 105, 110, 101, 101, 114>>, <<100, 101, 118, 101, 108, 111, 112, 101, 114>>, <<118, 111, 108, 117, 110, 116, 101, 101, 114>>, <<97, 115, 115, 105, 115, 116, 97, 110, 116>>, <<97, 110, 97, 108, 121, 115, 116>>,
     <<109, 97, 110, 97, 103, 101, 114>>, <<114, 101, 115, 101, 97, 114, 99, 104>>, <<97, 115, 115, 111, 99, 105, 97, 116, 101>>, <<108, 101, 97, 100>>, <<115, 112, 101, 99, 105, 97, 108, 105, 115, 116>>, <<99, 111, 110, 115, 117, 108, 116, 97, 110, 116>>}

\* the line read as "Company, Role"
company_first(ln) ==
    LET commas == {i \in 1..Len(ln) : ln[i] = 44}
        c == Least(commas)
        left == SubSeq(ln, 1, c - 1)
        right == Drop(ln, c)
    IN  IF commas # {} /\ Len(left) >= 2 /\ Len(right) >= 3 /\ HasWord(left, ROLE_WORDS)
        THEN [ok |-> TRUE, role |-> Strip(right), company |-> Strip(left)]
        ELSE [ok |-> FALSE, role |-> None, company |-> None]

\* lines 263-264 and 318-319: the role-first pattern "Role, Company"
role_first(ln) ==
    LET commas == {i \in 1..Len(ln) : ln[i] = 44}
        c == Least(commas)
        left == SubSeq(ln, 1, c - 1)
        right == Drop(ln, c)
    IN  IF commas # {} /\ Len(left) >= 2 /\ Len(right) >= 3 /\ HasWord(left, ROLE_WORDS)
        THEN [ok |-> TRUE, role |-> Strip(left), company |-> Strip(right)]
        ELSE [ok |-> FALSE, role |-> None, company |-> None]

\* the characters that separate company and role
HEADER_SEPS == {45, 8212, 8211, 124, 58}

\* line 328: re.split(r"\s+[\-|:]\s+", ln), its first two parts
company_role_parts(ln) ==
    LET cand == {i \in 2..(Len(ln) - 1) :
                    ln[i] \in HEADER_SEPS /\ ln[i - 1] \in SPACES /\ ln[i + 1] \in SPACES}
        c1 == Least(cand)
        from == SkipSpaces(ln, c1 + 1)
        later == {i \in cand : i > c1 /\ \E k \in (c1 + 1)..(i - 1) : ln[k] \notin SPACES}
        to == IF later = {} THEN Len(ln)
              ELSE Least(later) - 1 - TailRun(SubSeq(ln, 1, Least(later) - 1), SPACES)
    IN  IF cand = {} THEN <<ln>>
        ELSE << SubSeq(ln, 1, c1 - 1 - TailRun(SubSeq(ln, 1, c1 - 1), SPACES)),
                SubSeq(ln, from, to) >>

HasAlpha(s) == \E i \in 1..Len(s) : IsAlpha(s[i])

\* the items kept as they are met, duplicates included
keep_all(items) == SelectSeq([n \in 1..Len(items) |-> Strip(items[n])], LAMBDA x : x # <<>>)

\* lines 127-135
RECURSIVE dedup_list(_)
dedup_list(items) ==
    IF items = <<>> THEN <<>>
    ELSE LET front == dedup_list(SubSeq(items, 1, Len(items) - 1))
             item == Strip(items[Len(items)])
             seen == {Lower(front[n]) : n \in 1..Len(front)}
         IN  IF item # <<>> /\ Lower(item) \notin seen THEN Append(front, item) ELSE front

(***************************************************************************)
(* modules/profile/text_preserve.py: the preamble (lines 137-202)          *)
(***************************************************************************)
LETTERS == (65..90) \cup (97..122)

DIGITS == 48..57

\* [A-Za-z0-9._%+\-]
EMAIL_LOCAL == LETTERS \cup DIGITS \cup {46, 95, 37, 43, 45}

\* [A-Za-z0-9.\-]
EMAIL_DOMAIN == LETTERS \cup DIGITS \cup {46, 45}

\* line 73: the end of the match of EMAIL_RE that starts at s[i], or 0
email_end(s, i) ==
    LET r == i - 1 + LeadRun(Drop(s, i - 1), EMAIL_LOCAL)
        dEnd == r + 1 + LeadRun(Drop(s, r + 1), EMAIL_DOMAIN)
        dots == {k \in (r + 3)..dEnd :
                    s[k] = 46 /\ LeadRun(Drop(s, k), LETTERS) >= 2}
    IN  IF r >= i /\ r + 1 <= Len(s) /\ s[r + 1] = 64 /\ dots # {}
        THEN Greatest(dots) + LeadRun(Drop(s, Greatest(dots)), LETTERS)
        ELSE 0

\* EMAIL_RE.search(s): the text of the match, or None
email_search(s) ==
    LET found(ends) ==
            LET starts == {i \in DOMAIN ends : ends[i] > 0}
            IN  IF starts = {} THEN None ELSE SubSeq(s, Least(starts), ends[Least(starts)])
    IN  found([i \in 1..Len(s) |-> email_end(s, i)])

\* [\d\-\s()]
PHONE_BODY == DIGITS \cup SPACES \cup {45, 40, 41}

\* line 74: the end of the match of PHONE_RE that starts at s[i], or 0
phone_end(s, i) ==
    LET d == IF s[i] = 43 THEN i + 1 ELSE i
        run == LeadRun(Drop(s, d), PHONE_BODY)
    IN  IF d <= Len(s) /\ s[d] \in DIGITS /\ run >= 6 THEN d + run ELSE 0

\* PHONE_RE.search(s): the text of the match, or None
phone_search(s) ==
    LET found(ends) ==
            LET starts == {i \in DOMAIN ends : ends[i] > 0}
            IN  IF starts = {} THEN None ELSE SubSeq(s, Least(starts), ends[Least(starts)])
    IN  found([i \in 1..Len(s) |-> phone_end(s, i)])

\* re.sub(r"\D", "", s)
digits_of(s) == SelectSeq(s, LAMBDA c : c \in DIGITS)

\* line 144
NAME_STOP_WORDS ==
    {<<112, 114, 111, 102, 101, 115, 115, 105, 111, 110, 97, 108, 32, 115, 117, 109, 109, 97, 114, 121>>, <<115, 117, 109, 109, 97, 114, 121>>, <<112, 114, 111, 102, 105, 108, 101>>, <<99, 97, 114, 101, 101, 114, 32, 111, 98, 106, 101, 99, 116, 105, 118, 101>>}

\* line 176: re.fullmatch(r"[A-Za-z][A-Za-z0-9\s\.\-\(\)]{1,80}", s)
name_like(s) ==
    /\ Len(s) >= 2 /\ Len(s) <= 81
    /\ s[1] \in LETTERS
    /\ \A i \in 2..Len(s) : s[i] \in LETTERS \cup DIGITS \cup SPACES \cup {46, 45, 40, 41}

ADDRESS_WORDS ==
    {<<115, 116, 114, 101, 101, 116>>, <<115, 116, 46>>, <<114, 111, 97, 100>>, <<114, 100, 46>>, <<97, 100, 100, 114, 101, 115, 115>>, <<115, 117, 105, 116, 101>>, <<102, 108, 111, 111, 114>>,
     <<117, 110, 105, 116>>, <<97, 112, 116>>, <<97, 118, 101, 110, 117, 101>>, <<97, 118, 101, 46>>}

\* line 194: an address word between word boundaries, or a street number
address_like(s) ==
    LET k == LeadRun(s, SPACES)
        d == LeadRun(Drop(s, k), DIGITS)
        w == LeadRun(Drop(s, k + d), SPACES)
    IN  \/ \E a \in ADDRESS_WORDS : \E i \in 1..(Len(s) - Len(a) + 1) :
               /\ Lower(SubSeq(s, i, i + Len(a) - 1)) = a
               /\ Boundary(s, i)
               /\ Boundary(s, i + Len(a))
        \/ /\ d >= 1 /\ d <= 4 /\ w >= 1
           /\ k + d + w + 1 <= Len(s)
           /\ s[k + d + w + 1] \in LETTERS

\* s.replace(old, "")
RECURSIVE Remove(_, _)
Remove(s, old) ==
    IF Len(s) < Len(old) \/ old = <<>> THEN s
    ELSE IF SubSeq(s, 1, Len(old)) = old THEN Remove(Drop(s, Len(old)), old)
    ELSE <<s[1]>> \o Remove(Tail(s), old)

\* lines 146-157: pr holds name, location, contact_parts, contact_seen and
\* summary_lines; key is None when the caller passes none
maybe_add_contact(pr, part, key) ==
    LET add(part_clean, k) ==
            IF part_clean = <<>> THEN pr
            ELSE IF /\ \A i \in 1..Len(part_clean) : IsDigit(part_clean[i])
                    /\ Len(part_clean) <= 4
                 THEN pr
            ELSE IF k \in pr.contact_seen THEN pr
            ELSE [pr EXCEPT !.contact_seen = @ \cup {k},
                            !.contact_parts = Append(@, part_clean)]
        keyed(part_clean) == add(part_clean, IF Truthy(key) THEN key ELSE Lower(part_clean))
    IN  keyed(SubRuns(StripChars(Strip(part), {124, 8226, 183, 45}), SPACES, 32))

\* lines 168-198, one segment; consumed is consumed_line
preamble_segment(pr, seg) ==
    LET rules(seg_norm, email, phone) ==
            LET asName == /\ ~Truthy(pr.name)
                          /\ email = None
                          /\ Lower(seg_norm) \notin NAME_STOP_WORDS
                          /\ name_like(seg_norm)
                with_phone(p1) ==
                    IF phone # None
                    THEN maybe_add_contact(p1, phone, Or(digits_of(phone), None))
                    ELSE p1
            IN  IF ~Truthy(pr.name) /\ email # None THEN pr
                ELSE IF asName THEN [pr EXCEPT !.name = seg_norm, !.consumed = TRUE]
                ELSE IF email # None \/ phone # None
                     THEN [with_phone(IF email # None
                                      THEN maybe_add_contact(pr, email, None) ELSE pr)
                               EXCEPT !.consumed = TRUE]
                ELSE IF ~Truthy(pr.location) /\ address_like(seg)
                     THEN [pr EXCEPT !.location = Strip(Remove(seg, <<65, 100, 100, 114, 101, 115, 115, 58>>)),
                                     !.consumed = TRUE]
                ELSE pr
    IN  rules(Strip(SubRuns(seg, SPACES, 32)), email_search(seg), phone_search(seg))

RECURSIVE preamble_segments(_, _)
preamble_segments(pr, segs) ==
    IF segs = <<>> THEN pr
    ELSE preamble_segments(preamble_segment(pr, segs[1]), Tail(segs))

\* lines 160-202, one line of the preamble
preamble_line(pr, raw) ==
    LET stripped(pieces) ==
            SelectSeq([n \in 1..Len(pieces) |-> Strip(pieces[n])], LAMBDA p : p # <<>>)
        segments(text_line, segs) == IF segs = <<>> THEN <<text_line>> ELSE segs
        summarized(text_line, after) ==
            IF text_line = <<>> THEN pr
            ELSE IF ~after.consumed /\ norm_header(text_line) \notin NAME_STOP_WORDS
                 THEN [after EXCEPT !.summary_lines = Append(@, text_line)]
            ELSE after
        of_text(text_line) ==
            summarized(text_line,
                       preamble_segments(
                           [pr EXCEPT !.consumed = FALSE],
                           segments(text_line,
                                    stripped(Fragments(text_line,
                                                       {i \in 1..Len(text_line) :
                                                           text_line[i] \in {124, 8226, 183}})))))
    IN  of_text(Strip(raw))

NoPreamble ==
    [name |-> None, location |-> None, contact_parts |-> <<>>, contact_seen |-> {},
     summary_lines |-> <<>>, consumed |-> FALSE]

\* lines 138-202
RECURSIVE parse_preamble(_, _)
parse_preamble(pr, preamble) ==
    IF preamble = <<>> THEN pr
    ELSE parse_preamble(preamble_line(pr, preamble[1]), Tail(preamble))

(***************************************************************************)
(* modules/profile/text_preserve.py: education and experience              *)
(***************************************************************************)
\* lines 220-232 and 348-359: a line with an unmatched "(" is joined with
\* the next line when that one ends with ")"
RECURSIVE merge_brackets(_)
merge_brackets(bl) ==
    IF bl = <<>> THEN <<>>
    ELSE LET curline == Strip(bl[1])
         IN  IF /\ Len(bl) >= 2
                /\ 40 \in Range(curline) /\ 41 \notin Range(curline)
                /\ EndsWithStr(Strip(bl[2]), <<41>>)
             THEN <<curline \o <<32>> \o Strip(bl[2])>> \o merge_brackets(Drop(bl, 2))
             ELSE <<curline>> \o merge_brackets(Tail(bl))

\* lines 234-235
is_header_line(s) ==
    norm_header(s) \in {<<101, 100, 117, 99, 97, 116, 105, 111, 110>>, <<101, 120, 112, 101, 114, 105, 101, 110, 99, 101>>, <<112, 114, 111, 106, 101, 99, 116, 115>>, <<115, 107, 105, 108, 108, 115>>,
                        <<108, 97, 110, 103, 117, 97, 103, 101, 115>>, <<99, 101, 114, 116, 105, 102, 105, 99, 97, 116, 105, 111, 110, 115>>}

\* an Education dict
Edu(school, degree, major, start, end) ==
    [school |-> school, degree |-> degree, major |-> major, start |-> start, end |-> end]

\* an Experience dict
Xp(company, role, start, end, bullets) ==
    [company |-> company, role |-> role, start |-> start, end |-> end, bullets |-> bullets]

\* line 211: the record ensure_current_edu opens
BlankEdu == Edu(None, None, None, None, None)

\* lines 299 and 310: the blank record of the experience loop
BlankXp == Xp(<<>>, <<>>, None, None, <<>>)

\* the education loop at rest: cur is None when open is FALSE
NoEducation == [edu |-> <<>>, open |-> FALSE, cur |-> BlankEdu, moved_to_exp |-> <<>>]

\* lines 214-218
commit_current_edu(es) ==
    [es EXCEPT !.edu = IF es.open /\ \E f \in {"school", "degree", "major", "start", "end"} :
                                         Truthy(es.cur[f])
                       THEN Append(@, es.cur) ELSE @,
               !.open = FALSE, !.cur = BlankEdu]

\* lines 208-212
ensure_current_edu(es) == [es EXCEPT !.open = TRUE]

\* lines 238-273, one line
education_line(es, ln) ==
    LET flushed == IF es.open /\ Truthy(es.cur.school) THEN commit_current_edu(es) ELSE es
        opened == ensure_current_edu(flushed)
        rules(rf, dr, dm) ==
            IF ln = <<>> \/ is_header_line(ln) THEN es
            ELSE IF looks_like_degree(ln)
                 THEN [ensure_current_edu(es) EXCEPT
                           !.cur.degree =
                               IF Truthy(dm.degree) /\ ~Truthy(@) THEN dm.degree ELSE @,
                           !.cur.major =
                               IF Truthy(dm.major) /\ ~Truthy(@) THEN dm.major ELSE @]
            ELSE IF dr.ok
                 THEN [opened EXCEPT
                           !.cur.start = IF Truthy(dr.a) /\ ~Truthy(@) THEN dr.a ELSE @,
                           !.cur.end = IF Truthy(dr.b) /\ ~Truthy(@) THEN dr.b ELSE @]
            ELSE IF rf.ok
                 THEN [es EXCEPT !.moved_to_exp =
                                     Append(@, Xp(rf.company, rf.role, None, None, <<>>))]
            ELSE IF looks_like_school(ln) THEN [opened EXCEPT !.cur.school = ln]
            ELSE es
    IN  rules(role_first(ln), date_range_from_line(ln), split_degree_major(ln))

\* lines 204-274
RECURSIVE education_lines(_, _)
education_lines(es, lines) ==
    IF lines = <<>> THEN commit_current_edu(es)
    ELSE education_lines(education_line(es, lines[1]), Tail(lines))

reconstruct_education(bucket) ==
    education_lines(NoEducation, merge_brackets(bucket.education))

\* the experience loop at rest: curx is None when open is FALSE
NoExperience == [exp |-> <<>>, open |-> FALSE, curx |-> BlankXp]

\* lines 280-292
commit_current_exp(xs) ==
    [xs EXCEPT !.exp = IF /\ xs.open
                          /\ \/ Strip(xs.curx.company) # <<>>
                             \/ Truthy(xs.curx.role) /\ Strip(xs.curx.role) # <<>>
                             \/ Truthy(xs.curx.start)
                             \/ Truthy(xs.curx.end)
                             \/ xs.curx.bullets # <<>>
                       THEN Append(@, xs.curx) ELSE @,
               !.open = FALSE, !.curx = BlankXp]

\* a loop in which a header line never fills the open record
unnamed_never(xs) == FALSE

\* lines 320 and 330: an open record with neither company nor role
unnamed(xs) == xs.open /\ Strip(xs.curx.company) = <<>> /\ Strip(xs.curx.role) = <<>>

\* a bullet appended in front of the bullets of the open record
push_bullet(bullets, b) == <<b>> \o bullets

\* lines 305 and 339
append_bullet(bullets, b) == Append(bullets, b)

\* lines 295-343, one line
experience_line(xs, ln) ==
    LET opened == [xs EXCEPT !.open = TRUE]
        rules(b, dr, rf, parts) ==
            IF ln = <<>> \/ is_header_line(ln) THEN xs
            ELSE IF is_bullet(ln)
                 THEN IF is_year_token(b)
                      THEN [opened EXCEPT !.curx.start = IF ~Truthy(@) THEN b ELSE @]
                      ELSE [opened EXCEPT !.curx.bullets = append_bullet(@, b)]
            ELSE IF dr.ok
                 THEN [opened EXCEPT
                           !.curx.start = IF Truthy(dr.a) /\ ~Truthy(@) THEN dr.a ELSE @,
                           !.curx.end = IF Truthy(dr.b) /\ ~Truthy(@) THEN dr.b ELSE @]
            ELSE IF rf.ok
                 THEN IF unnamed(xs)
                      THEN [xs EXCEPT !.curx.company = rf.company, !.curx.role = rf.role]
                      ELSE [commit_current_exp(xs) EXCEPT
                                !.open = TRUE,
                                !.curx = Xp(rf.company, rf.role, None, None, <<>>)]
            ELSE IF Len(parts) >= 2 /\ HasAlpha(parts[1]) /\ HasAlpha(parts[2])
                 THEN IF unnamed(xs)
                      THEN [xs EXCEPT !.curx.company = Strip(parts[1]),
                                      !.curx.role = Strip(parts[2])]
                      ELSE [commit_current_exp(xs) EXCEPT
                                !.open = TRUE,
                                !.curx = Xp(Strip(parts[1]), Strip(parts[2]), None, None,
                                            <<>>)]
            ELSE IF xs.open THEN [xs EXCEPT !.curx.bullets = append_bullet(@, ln)]
            ELSE IF HasAlpha(ln)
                 THEN [xs EXCEPT !.open = TRUE, !.curx = Xp(ln, <<>>, None, None, <<>>)]
            ELSE xs
    IN  rules(clean_bullet(ln), date_range_from_line(ln), role_first(ln),
              company_role_parts(ln))

\* lines 276-344
RECURSIVE experience_lines(_, _)
experience_lines(xs, lines) ==
    IF lines = <<>> THEN commit_current_exp(xs)
    ELSE experience_lines(experience_line(xs, lines[1]), Tail(lines))

reconstruct_experience(bucket) == experience_lines(NoExperience, bucket.experience)

(***************************************************************************)
(* modules/profile/text_preserve.py: projects, skills and languages        *)
(***************************************************************************)
\* the projects loop at rest: pending_edu is None when open is FALSE
NoProjects == [edu_from_projects |-> <<>>, open |-> FALSE, pending_edu |-> BlankEdu,
               block |-> <<>>]

\* lines 369-373
flush_pending_edu(ps) ==
    [ps EXCEPT !.edu_from_projects =
                   IF ps.open /\ Truthy(ps.pending_edu.school)
                   THEN Append(@, ps.pending_edu) ELSE @,
               !.open = FALSE, !.pending_edu = BlankEdu]

\* lines 364-367
ensure_pending_edu(ps) == [ps EXCEPT !.open = TRUE]

\* line 410: re.search(r"(?i)\bGPA\b", s)
has_gpa(s) == HasWord(s, {<<103, 112, 97>>})

\* lines 377-414, one line
projects_line(ps, ln) ==
    LET full == /\ ps.open /\ Truthy(ps.pending_edu.school)
                /\ \E f \in {"start", "end", "degree", "major"} : Truthy(ps.pending_edu[f])
        dated == ensure_pending_edu(IF full THEN flush_pending_edu(ps) ELSE ps)
        schooled == ensure_pending_edu(IF ps.open /\ Truthy(ps.pending_edu.school)
                                       THEN flush_pending_edu(ps) ELSE ps)
        rules(text_line, dr, dm) ==
            IF ln = <<>> THEN ps
            ELSE IF dr.ok
                 THEN [dated EXCEPT
                           !.pending_edu.start =
                               IF Truthy(dr.a) /\ ~Truthy(@) THEN dr.a ELSE @,
                           !.pending_edu.end =
                               IF Truthy(dr.b) /\ ~Truthy(@) THEN dr.b ELSE @]
            ELSE IF looks_like_degree(text_line)
                 THEN [ensure_pending_edu(ps) EXCEPT
                           !.pending_edu.degree =
                               IF Truthy(dm.degree) /\ ~Truthy(@) THEN dm.degree ELSE @,
                           !.pending_edu.major =
                               IF Truthy(dm.major) /\ ~Truthy(@) THEN dm.major ELSE @]
            ELSE IF looks_like_school(text_line)
                 THEN [schooled EXCEPT !.pending_edu.school = text_line]
            ELSE IF has_gpa(text_line) THEN ensure_pending_edu(ps)
            ELSE [ps EXCEPT !.block = Append(@, text_line)]
        of_text(text_line) ==
            rules(text_line, date_range_from_line(text_line), split_degree_major(text_line))
    IN  of_text(IF is_bullet(ln) THEN clean_bullet(ln) ELSE ln)

RECURSIVE projects_lines(_, _)
projects_lines(ps, lines) ==
    IF lines = <<>> THEN flush_pending_edu(ps)
    ELSE projects_lines(projects_line(ps, lines[1]), Tail(lines))

\* lines 346-417; a project dict has no start and no end, which Profile
\* reads as None
reconstruct_projects(bucket) ==
    LET result_of(ps) ==
            [edu_from_projects |-> ps.edu_from_projects,
             projects |-> IF ps.block # <<>>
                          THEN << Xp(<<80, 114, 111, 106, 101, 99, 116, 115>>, None, None, None, ps.block) >>
                          ELSE <<>>]
    IN  result_of(projects_lines(NoProjects, merge_brackets(bucket.projects)))

\* re.split(r"[;,]", s), stripped, the empty parts dropped
split_list(s) ==
    LET pieces == Fragments(s, {i \in 1..Len(s) : s[i] \in {59, 44}})
    IN  SelectSeq([n \in 1..Len(pieces) |-> Strip(pieces[n])], LAMBDA p : p # <<>>)

\* part.count("(") - part.count(")")
paren_balance(part) == CountChar(part, 40) - CountChar(part, 41)

\* lines 430-439: parts are joined again while a "(" is open; part and
\* balance are those of the part under construction
RECURSIVE join_open_parens(_, _, _)
join_open_parens(parts, part, balance) ==
    IF balance > 0 /\ parts # <<>>
    THEN join_open_parens(Tail(parts), part \o <<44, 32>> \o parts[1],
                          balance + paren_balance(parts[1]))
    ELSE IF parts = <<>> THEN <<part>>
    ELSE <<part>> \o join_open_parens(Tail(parts), parts[1], paren_balance(parts[1]))

\* line 426: re.fullmatch(r"&?\s*certifications?", s, re.I)
certifications_residue(s) ==
    LET a == IF s # <<>> /\ s[1] = 38 THEN Tail(s) ELSE s
        b == Lower(Drop(a, LeadRun(a, SPACES)))
    IN  b \in {<<99, 101, 114, 116, 105, 102, 105, 99, 97, 116, 105, 111, 110>>, <<99, 101, 114, 116, 105, 102, 105, 99, 97, 116, 105, 111, 110, 115>>}

\* lines 421-441, one line of the skills bucket
raw_skills_of(ln) ==
    LET joined(text_line, parts) ==
            IF text_line = <<>> \/ certifications_residue(text_line) THEN <<>>
            ELSE IF parts # <<>>
                 THEN join_open_parens(Tail(parts), parts[1], paren_balance(parts[1]))
            ELSE <<text_line>>
        of_text(text_line) == joined(text_line, split_list(text_line))
    IN  of_text(IF is_bullet(ln) THEN clean_bullet(ln) ELSE Strip(ln))

\* lines 443-451, one raw skill, as a list of no or one skill
norm_skill(s) ==
    LET unjoined(t) == IF StartsWith(Lower(t), <<97, 110, 100, 32>>) THEN Strip(Drop(t, 4)) ELSE t
        capitalized(t2) ==
            IF t2 # <<>> /\ IsLowerCh(t2[1]) THEN <<UpperChar(t2[1])>> \o Tail(t2) ELSE t2
        of_text(t) == IF t = <<>> THEN <<>> ELSE <<capitalized(unjoined(t))>>
    IN  of_text(Strip(s))

\* lines 419-452
extract_skills(bucket) ==
    LET norm_skills(raw_skills) ==
            Flatten([n \in 1..Len(raw_skills) |-> norm_skill(raw_skills[n])])
    IN  dedup_list(norm_skills(Flatten([n \in 1..Len(bucket.skills) |->
                                           raw_skills_of(bucket.skills[n])])))

\* lines 456-464, one line of the languages bucket
languages_of(ln) ==
    LET listed(text_line, parts) ==
            IF text_line = <<>> THEN <<>>
            ELSE IF parts # <<>> THEN parts
            ELSE <<text_line>>
        of_text(text_line) == listed(text_line, split_list(text_line))
    IN  of_text(IF is_bullet(ln) THEN clean_bullet(ln) ELSE Strip(ln))

\* lines 454-465
extract_languages(bucket) ==
    dedup_list(Flatten([n \in 1..Len(bucket.languages) |-> languages_of(bucket.languages[n])]))

\* line 467
contact_str(contact_parts) ==
    IF contact_parts # <<>> THEN Join(<<32, 124, 32>>, dedup_list(contact_parts)) ELSE None

\* line 473
summary_of(summary_lines) == Or(Strip(Join(<<32>>, summary_lines)), None)

(***************************************************************************)
(* parse_text_preserve, section by section.  tp holds its local variables  *)
(* and, in tp.at, the section about to run.                                *)
(***************************************************************************)
\* the profile dict of lines 469-479; empty tells the {} of line 25, whose
\* keys all read as None or []
ProfileDict(empty, name, contact, location, summary, education, experience, projects,
            skills, languages) ==
    [empty |-> empty, name |-> name, contact |-> contact, location |-> location,
     summary |-> summary, education |-> education, experience |-> experience,
     projects |-> projects, skills |-> skills, languages |-> languages]

\* line 25
EmptyProfileDict == ProfileDict(TRUE, None, None, None, None, <<>>, <<>>, <<>>, <<>>, <<>>)

\* the local variables before the first statement
NoSegmenterLocals ==
    [at |-> "lines", lines |-> <<>>, bucket |-> EmptyBucket, preamble |-> <<>>,
     name |-> None, location |-> None, contact_parts |-> <<>>, summary_lines |-> <<>>,
     edu |-> <<>>, moved_to_exp |-> <<>>, exp |-> <<>>,
     projects |-> <<>>, edu_from_projects |-> <<>>,
     skills |-> <<>>, languages |-> <<>>,
     profile |-> EmptyProfileDict]

segmenterOthers == <<pc, profile, jd, result, prevScore, added, doc, jdst, up, calls, jobsVars>>

\* lines 15-25
NormalizeLines ==
    /\ tp.at = "lines"
    /\ LET normalized(lines) ==
               [tp EXCEPT !.lines = lines,
                          !.at = IF lines = <<>> THEN "returned" ELSE "sections"]
       IN  tp' = normalized(normalize_lines(in_text))
    /\ UNCHANGED <<in_text, segmenterOthers>>

\* lines 48-69
AssignSections ==
    /\ tp.at = "sections"
    /\ LET assigned(st) ==
               [tp EXCEPT !.bucket = st.bucket, !.preamble = st.preamble, !.at = "preamble"]
       IN  tp' = assigned(assign_sections([bucket |-> EmptyBucket, preamble |-> <<>>,
                                           current |-> NoSection], tp.lines))
    /\ UNCHANGED <<in_text, segmenterOthers>>

\* lines 137-202
ParsePreamble ==
    /\ tp.at = "preamble"
    /\ LET parsed(pr) ==
               [tp EXCEPT !.name = pr.name, !.location = pr.location,
                          !.contact_parts = pr.contact_parts,
                          !.summary_lines = pr.summary_lines, !.at = "education"]
       IN  tp' = parsed(parse_preamble(NoPreamble, tp.preamble))
    /\ UNCHANGED <<in_text, segmenterOthers>>

\* lines 204-274
Education ==
    /\ tp.at = "education"
    /\ LET reconstructed(es) ==
               [tp EXCEPT !.edu = es.edu, !.moved_to_exp = es.moved_to_exp,
                          !.at = "experience"]
       IN  tp' = reconstructed(reconstruct_education(tp.bucket))
    /\ UNCHANGED <<in_text, segmenterOthers>>

\* lines 276-344
Experience ==
    /\ tp.at = "experience"
    /\ tp' = [tp EXCEPT !.exp = reconstruct_experience(tp.bucket).exp, !.at = "projects"]
    /\ UNCHANGED <<in_text, segmenterOthers>>

\* lines 346-417
Projects ==
    /\ tp.at = "projects"
    /\ LET reconstructed(ps) ==
               [tp EXCEPT !.projects = ps.projects,
                          !.edu_from_projects = ps.edu_from_projects, !.at = "skills"]
       IN  tp' = reconstructed(reconstruct_projects(tp.bucket))
    /\ UNCHANGED <<in_text, segmenterOthers>>

\* the skills of the section after the keywords of the job description
\* parse_html_to_jd works on
SkillsShared ==
    /\ tp.at = "skills"
    /\ tp' = [tp EXCEPT !.skills = dedup_list(jdst.keywords \o extract_skills(tp.bucket)),
                        !.at = "languages"]
    /\ UNCHANGED <<in_text, segmenterOthers>>

\* lines 419-452
Skills ==
    /\ tp.at = "skills"
    /\ tp' = [tp EXCEPT !.skills = extract_skills(tp.bucket), !.at = "languages"]
    /\ UNCHANGED <<in_text, segmenterOthers>>

\* lines 454-465
Languages ==
    /\ tp.at = "languages"
    /\ tp' = [tp EXCEPT !.languages = extract_languages(tp.bucket), !.at = "assemble"]
    /\ UNCHANGED <<in_text, segmenterOthers>>

\* lines 467-480
Assemble ==
    /\ tp.at = "assemble"
    /\ tp' = [tp EXCEPT !.profile =
                 ProfileDict(FALSE, tp.name, contact_str(tp.contact_parts), tp.location,
                             summary_of(tp.summary_lines),
                             tp.edu \o tp.edu_from_projects,
                             tp.exp \o tp.moved_to_exp,
                             tp.projects, tp.skills, tp.languages), !.at = "returned"]
    /\ UNCHANGED <<in_text, segmenterOthers>>

NextSegmenter ==
    \/ NormalizeLines
    \/ AssignSections
    \/ ParsePreamble
    \/ Education
    \/ Experience
    \/ Projects
    \/ Skills
    \/ Languages
    \/ Assemble

\* lines 137-480 on the buckets and the preamble of lines 48-69
profile_of_sections(st) ==
    LET assembled(pr, es, xs, ps, skills, languages) ==
            ProfileDict(FALSE, pr.name, contact_str(pr.contact_parts), pr.location,
                        summary_of(pr.summary_lines),
                        es.edu \o ps.edu_from_projects,
                        xs.exp \o es.moved_to_exp,
                        ps.projects, skills, languages)
    IN  assembled(parse_preamble(NoPreamble, st.preamble),
                  reconstruct_education(st.bucket), reconstruct_experience(st.bucket),
                  reconstruct_projects(st.bucket), extract_skills(st.bucket),
                  extract_languages(st.bucket))

\* lines 24-480 on the lines of lines 15-23
profile_of_lines(lines) ==
    IF lines = <<>> THEN EmptyProfileDict
    ELSE profile_of_sections(assign_sections([bucket |-> EmptyBucket, preamble |-> <<>>,
                                              current |-> NoSection], lines))

\* the whole call, as the composition of its sections
parse_text_preserve(txt) == profile_of_lines(normalize_lines(txt))

(***************************************************************************)
(* Inputs of parse_text_preserve: a text is a preamble followed by the     *)
(* sections of a resume, each taken from a few variants.                   *)
(***************************************************************************)
Preambles ==
    { <<>>,
      << <<74, 97, 110, 101, 32, 68, 111, 101>>, <<106, 97, 110, 101, 64, 101, 120, 97, 109, 112, 108, 101, 46, 99, 111, 109, 32, 124, 32, 43, 54, 49, 32, 52, 48, 48, 32, 49, 50, 51, 32, 52, 53, 54>>,
         <<49, 50, 32, 72, 105, 103, 104, 32, 83, 116, 114, 101, 101, 116, 44, 32, 77, 101, 108, 98, 111, 117, 114, 110, 101>> >>,
      << <<69, 120, 112, 101, 114, 105, 101, 110, 99, 101, 100, 32, 97, 110, 97, 108, 121, 115, 116, 32, 119, 105, 116, 104, 32, 83, 81, 76>> >> }

EducationSections ==
    { <<>>,
      << <<69, 100, 117, 99, 97, 116, 105, 111, 110>>, <<85, 110, 105, 118, 101, 114, 115, 105, 116, 121, 32, 111, 102, 32, 77, 101, 108, 98, 111, 117, 114, 110, 101>>,
         <<66, 97, 99, 104, 101, 108, 111, 114, 32, 111, 102, 32, 83, 99, 105, 101, 110, 99, 101, 32, 40, 67, 111, 109, 112, 117, 116, 101, 114, 32, 83, 99, 105, 101, 110, 99, 101, 41>>, <<50, 48, 49, 57, 32, 45, 32, 50, 48, 50, 50>> >>,
      << <<69, 100, 117, 99, 97, 116, 105, 111, 110>>, <<50, 48, 49, 57, 32, 45, 32, 50, 48, 50, 50>>, <<85, 110, 105, 118, 101, 114, 115, 105, 116, 121, 32, 111, 102, 32, 77, 101, 108, 98, 111, 117, 114, 110, 101>>,
         <<66, 97, 99, 104, 101, 108, 111, 114, 32, 111, 102, 32, 83, 99, 105, 101, 110, 99, 101, 32, 40, 67, 111, 109, 112, 117, 116, 101, 114, 32, 83, 99, 105, 101, 110, 99, 101, 41>> >>,
      << <<69, 68, 85, 67, 65, 84, 73, 79, 78, 58>>, <<66, 97, 99, 104, 101, 108, 111, 114, 32, 111, 102, 32, 83, 99, 105, 101, 110, 99, 101, 32, 40, 67, 111, 109, 112, 117, 116, 101, 114, 32, 83, 99, 105, 101, 110, 99, 101, 41>>, <<50, 48, 49, 57, 32, 45, 32, 50, 48, 50, 50>> >>,
      << <<69, 100, 117, 99, 97, 116, 105, 111, 110>>, <<85, 110, 105, 118, 101, 114, 115, 105, 116, 121, 32, 111, 102, 32, 77, 101, 108, 98, 111, 117, 114, 110, 101>>,
         <<84, 101, 97, 99, 104, 105, 110, 103, 32, 65, 115, 115, 105, 115, 116, 97, 110, 116, 44, 32, 77, 111, 110, 97, 115, 104, 32, 85, 110, 105, 118, 101, 114, 115, 105, 116, 121, 44, 32, 50, 48, 50, 48, 32, 45, 32, 50, 48, 50, 49>> >>,
      << <<69, 100, 117, 99, 97, 116, 105, 111, 110>>, <<82, 101, 115, 101, 97, 114, 99, 104, 32, 65, 115, 115, 105, 115, 116, 97, 110, 116, 44, 32, 77, 111, 110, 97, 115, 104, 32, 85, 110, 105, 118, 101, 114, 115, 105, 116, 121>>, <<85, 110, 105, 118, 101, 114, 115, 105, 116, 121, 32, 111, 102, 32, 83, 121, 100, 110, 101, 121>>,
         <<77, 97, 115, 116, 101, 114, 32, 111, 102, 32, 73, 84, 32, 40, 68, 97, 116, 97>>, <<83, 99, 105, 101, 110, 99, 101, 41>> >> }

ExperienceSections ==
    { <<>>,
      << <<69, 120, 112, 101, 114, 105, 101, 110, 99, 101>>, <<83, 111, 102, 116, 119, 97, 114, 101, 32, 69, 110, 103, 105, 110, 101, 101, 114, 44, 32, 65, 99, 109, 101, 32, 67, 111, 114, 112>>, <<8226, 32, 66, 117, 105, 108, 116, 32, 65, 80, 73, 115>>,
         <<45, 32, 76, 101, 100, 32, 116, 101, 97, 109>>, <<83, 104, 105, 112, 112, 101, 100, 32, 114, 101, 108, 101, 97, 115, 101, 115>> >>,
      << <<87, 111, 114, 107, 32, 69, 120, 112, 101, 114, 105, 101, 110, 99, 101>>, <<70, 101, 98, 32, 50, 48, 50, 48, 32, 45, 32, 80, 114, 101, 115, 101, 110, 116>>, <<68, 97, 116, 97, 32, 65, 110, 97, 108, 121, 115, 116, 44, 32, 66, 101, 116, 97, 32, 80, 116, 121, 32, 76, 116, 100>>,
         <<8226, 32, 50, 48, 50, 49>>, <<8226, 32, 87, 114, 111, 116, 101, 32, 114, 101, 112, 111, 114, 116, 115, 32, 8226, 32, 67, 108, 101, 97, 110, 101, 100, 32, 100, 97, 116, 97>> >>,
      << <<69, 88, 80, 69, 82, 73, 69, 78, 67, 69, 58>>, <<65, 99, 109, 101, 32, 67, 111, 114, 112, 32, 45, 32, 83, 111, 102, 116, 119, 97, 114, 101, 32, 69, 110, 103, 105, 110, 101, 101, 114>>, <<8226, 32, 66, 117, 105, 108, 116, 32, 65, 80, 73, 115>>,
         <<76, 101, 97, 100, 44, 32, 73, 110, 105, 116, 101, 99, 104>>, <<8226, 32, 76, 101, 100, 32, 116, 101, 97, 109>> >>,
      << <<69, 120, 112, 101, 114, 105, 101, 110, 99, 101>>, <<8226, 32, 83, 104, 105, 112, 112, 101, 100, 32, 105, 116>>, <<50, 48, 49, 57, 32, 45, 32, 50, 48, 50, 48>>,
         <<65, 99, 109, 101, 32, 67, 111, 114, 112, 32, 45, 32, 83, 111, 102, 116, 119, 97, 114, 101, 32, 69, 110, 103, 105, 110, 101, 101, 114>>, <<76, 101, 97, 100, 44, 32, 73, 110, 105, 116, 101, 99, 104>> >> }

ProjectsSections ==
    { <<>>,
      << <<80, 114, 111, 106, 101, 99, 116, 115>>, <<82, 101, 115, 117, 109, 101, 32, 112, 97, 114, 115, 101, 114, 32, 40, 80, 121, 116, 104, 111, 110>>, <<70, 97, 115, 116, 65, 80, 73, 41>>, <<8226, 32, 66, 117, 105, 108, 116, 32, 97, 32, 112, 97, 114, 115, 101, 114>> >>,
      << <<80, 114, 111, 106, 101, 99, 116, 115>>, <<83, 97, 108, 101, 115, 32, 100, 97, 115, 104, 98, 111, 97, 114, 100>>, <<50, 48, 50, 49, 32, 45, 32, 50, 48, 50, 50>>,
         <<8226, 32, 67, 111, 117, 114, 115, 101, 32, 112, 114, 111, 106, 101, 99, 116, 32, 97, 116, 32, 77, 111, 110, 97, 115, 104, 32, 85, 110, 105, 118, 101, 114, 115, 105, 116, 121>>, <<8226, 32, 66, 117, 105, 108, 116, 32, 99, 104, 97, 114, 116, 115>> >> }

SkillsSections ==
    { <<>>,
      << <<83, 107, 105, 108, 108, 115>>, <<80, 121, 116, 104, 111, 110, 44, 32, 83, 81, 76, 44, 32, 80, 121, 116, 104, 111, 110>> >>,
      << <<83, 107, 105, 108, 108, 115, 58, 32, 112, 121, 116, 104, 111, 110, 44, 32, 115, 113, 108, 59, 32, 80, 121, 116, 104, 111, 110, 32, 40, 78, 117, 109, 80, 121, 44, 32, 80, 97, 110, 100, 97, 115, 41, 44, 32, 97, 110, 100, 32, 103, 105, 116>> >> }

LanguagesSections ==
    { <<>>,
      << <<76, 97, 110, 103, 117, 97, 103, 101, 115>>, <<69, 110, 103, 108, 105, 115, 104, 44, 32, 102, 114, 101, 110, 99, 104, 59, 32, 69, 110, 103, 108, 105, 115, 104>> >> }

Texts ==
    { p \o e \o x \o r \o s \o l :
        p \in Preambles, e \in EducationSections, x \in ExperienceSections,
        r \in ProjectsSections, s \in SkillsSections, l \in LanguagesSections }

InitSegmenter ==
    /\ in_text \in Texts
    /\ tp = NoSegmenterLocals
    /\ up = [at |-> "idle"]
    /\ calls = [n |-> 0, jd |-> {}, text |-> {}]
    /\ pc = "idle"
    /\ profile = None
    /\ jd = None
    /\ result = NoResult
    /\ prevScore = -1
    /\ added = 0
    /\ doc = None
    /\ jdst = NoLocals
    /\ JobsIdle

SpecSegmenter == InitSegmenter /\ [][NextSegmenter]_vars

(***************************************************************************)
(* Properties of parse_text_preserve                                       *)
(***************************************************************************)
\* the call has returned a profile dict that is not {}
SegReturned == tp.at = "returned" /\ ~tp.profile.empty

\* the parts of a line left and right of its first comma
LeftOfComma(ln) ==
    SubSeq(ln, 1, Least({i \in 1..(Len(ln) + 1) : i > Len(ln) \/ ln[i] = 44}) - 1)

RightOfComma(ln) == Drop(ln, Len(LeftOfComma(ln)) + 1)

\* "Role, Company": a comma, a left part of two characters or more that
\* holds a role keyword, a right part of three characters or more
RoleCommaCompany(ln) ==
    /\ 44 \in Range(ln)
    /\ Len(LeftOfComma(ln)) >= 2
    /\ Len(RightOfComma(ln)) >= 3
    /\ HasWord(LeftOfComma(ln), ROLE_WORDS)

C13_ScenarioC ==
    SegReturned =>
        LET b == merge_brackets(tp.bucket.education)
        IN  (/\ Len(b) = 3
             /\ looks_like_school(b[1]) /\ ~looks_like_degree(b[1])
             /\ ~date_range_from_line(b[1]).ok
             /\ looks_like_degree(b[2]) /\ first_parenthetical(b[2]) # None
             /\ date_range_from_line(b[3]).ok /\ ~looks_like_degree(b[3]))
            => tp.edu = << Edu(b[1],
                               Strip(SubSeq(b[2], 1, Least({i \in 1..Len(b[2]) : b[2][i] = 40}) - 1)),
                               Strip(first_parenthetical(b[2])),
                               date_range_from_line(b[3]).a,
                               date_range_from_line(b[3]).b) >>

\* the position of the first item of raw that equals x ignoring case
FirstSeen(raw, x) == Least({n \in 1..Len(raw) : Lower(Strip(raw[n])) = Lower(x)})

\* the skills of the Skills section before dedup
NormSkills ==
    LET raw == Flatten([n \in 1..Len(tp.bucket.skills) |-> raw_skills_of(tp.bucket.skills[n])])
    IN  Flatten([n \in 1..Len(raw) |-> norm_skill(raw[n])])

\* C14: the skills list holds no two entries that are equal ignoring case,
\* holds every skill of the Skills section, and holds them in the order in
\* which they are first seen; the line "Python, SQL, Python" yields
\* ["Python", "SQL"].
C14_SkillsDedup ==
    SegReturned =>
        LET skills == tp.profile.skills
        IN  /\ NoDuplicates(LowerAll(skills))
            /\ \A n \in DOMAIN NormSkills :
                   Strip(NormSkills[n]) # <<>>
                       => \E k \in DOMAIN skills : Lower(skills[k]) = Lower(Strip(NormSkills[n]))
            /\ \A i, j \in DOMAIN skills :
                   i < j => FirstSeen(NormSkills, skills[i]) < FirstSeen(NormSkills, skills[j])
            /\ tp.bucket.skills = << <<80, 121, 116, 104, 111, 110, 44, 32, 83, 81, 76, 44, 32, 80, 121, 116, 104, 111, 110>> >>
                   => skills = << <<80, 121, 116, 104, 111, 110>>, <<83, 81, 76>> >>

\* the line of Scenario E has been reduced to two skills
C14_Witness ==
    /\ SegReturned
    /\ tp.bucket.skills = << <<80, 121, 116, 104, 111, 110, 44, 32, 83, 81, 76, 44, 32, 80, 121, 116, 104, 111, 110>> >>
    /\ tp.profile.skills = << <<80, 121, 116, 104, 111, 110>>, <<83, 81, 76>> >>

\* C15: every Education record of the returned profile has a school that
\* is not empty.
C15_SchoolRequired ==
    SegReturned =>
        \A n \in DOMAIN tp.profile.education : Truthy(tp.profile.education[n].school)

\* C16: every line of the Education section that matches the role-first
\* pattern yields an Experience record with the left part as role and the
\* right part as company, and the Education records are those the other
\* lines of the section yield without it.
C16_RoleFirstRehomed ==
    SegReturned =>
        LET b == merge_brackets(tp.bucket.education)
            others == SelectSeq(b, LAMBDA l : ~RoleCommaCompany(l))
        IN  /\ \A n \in DOMAIN b :
                   (RoleCommaCompany(b[n]) /\ ~is_header_line(b[n]))
                       => \E k \in DOMAIN tp.profile.experience :
                              /\ tp.profile.experience[k].role = Strip(LeftOfComma(b[n]))
                              /\ tp.profile.experience[k].company = Strip(RightOfComma(b[n]))
            /\ tp.edu = education_lines(NoEducation, others).edu

\* xs is ys with some items left out
RECURSIVE IsSubsequence(_, _)
IsSubsequence(xs, ys) ==
    IF xs = <<>> THEN TRUE
    ELSE IF ys = <<>> THEN FALSE
    ELSE IF xs[1] = ys[1] THEN IsSubsequence(Tail(xs), Tail(ys))
    ELSE IsSubsequence(xs, Tail(ys))

\* the bullets of the records of the Experience section, record after
\* record, are lines of the section in the order of the section
BulletsInSourceOrder ==
    SegReturned =>
        LET src == [n \in 1..Len(tp.bucket.experience) |->
                       IF is_bullet(tp.bucket.experience[n])
                       THEN clean_bullet(tp.bucket.experience[n])
                       ELSE tp.bucket.experience[n]]
        IN  IsSubsequence(Flatten([k \in 1..Len(tp.exp) |-> tp.exp[k].bullets]), src)

\* a section header: the line names a section, alone or followed by text
\* that starts after the header word
SectionHeader(ln) ==
    \/ which_section(ln) # NoSection
    \/ /\ header_re_match(ln).ok
       /\ Boundary(ln, Len(header_re_match(ln).h) + 1)

\* C18: parse_text_preserve returns for every text, and when no line of the
\* text is a section header the education, experience, projects, skills and
\* languages of the result are empty.
C18_NoHeaderAllEmpty ==
    (tp.at = "returned" /\ \A n \in DOMAIN tp.lines : ~SectionHeader(tp.lines[n]))
        => /\ tp.profile.education = <<>>
           /\ tp.profile.experience = <<>>
           /\ tp.profile.projects = <<>>
           /\ tp.profile.skills = <<>>
           /\ tp.profile.languages = <<>>

(***************************************************************************)
(* Profile post-processing: src/modules/profile/postprocess.py             *)
(***************************************************************************)
\* x or ""
OrEmpty(x) == IF Truthy(x) THEN x ELSE <<>>

\* x or None
OrNone(x) == IF Truthy(x) THEN x ELSE None

\* lines 12-18; EMAIL_RE of line 9 is the pattern of the segmenter
clean_contact(contact, base_text) ==
    IF ~(Truthy(contact) /\ Strip(contact) # <<>>)
    THEN email_search(base_text)
    ELSE IF email_search(Strip(contact)) # None THEN email_search(Strip(contact))
         ELSE Strip(contact)

\* line 23: re.sub(r"^(?i)address\s*:\s*", "", s) where the pattern compiles
address_prefix(s) ==
    LET a == Len(<<97, 100, 100, 114, 101, 115, 115>>)
        c == a + LeadRun(Drop(s, a), SPACES) + 1
    IN  IF StartsWith(Lower(s), <<97, 100, 100, 114, 101, 115, 115>>) /\ c <= Len(s) /\ s[c] = 58
        THEN c + LeadRun(Drop(s, c), SPACES)
        ELSE 0

\* lines 21-24, where the pattern of line 23 compiles
clean_location(loc) == OrNone(Drop(Strip(OrEmpty(loc)), address_prefix(Strip(OrEmpty(loc)))))

\* line 33
TITLE_ONLY == { <<101, 100, 117, 99, 97, 116, 105, 111, 110>>, <<119, 111, 114, 107, 32, 101, 120, 112, 101, 114, 105, 101, 110, 99, 101>>, <<101, 120, 112, 101, 114, 105, 101, 110, 99, 101>>, <<112, 114, 111, 106, 101, 99, 116, 115>> }

\* lines 32-33
is_title_only(s) == Lower(Strip(s)) \in TITLE_ONLY

\* lines 38 and 66: re.search(r"(?i)unsw|new south wales", s)
is_unsw(s) == Contains(Lower(s), <<117, 110, 115, 119>>) \/ Contains(Lower(s), <<110, 101, 119, 32, 115, 111, 117, 116, 104, 32, 119, 97, 108, 101, 115>>)

UNSW == <<85, 110, 105, 118, 101, 114, 115, 105, 116, 121, 32, 111, 102, 32, 78, 101, 119, 32, 83, 111, 117, 116, 104, 32, 87, 97, 108, 101, 115>>

\* lines 36-40
norm_school_name(name) == IF is_unsw(Strip(name)) THEN UNSW ELSE Strip(name)

\* line 57: re.match(r"(?i)(Master|Bachelor)[^()]*", school)
degree_in_school(school) ==
    StartsWith(Lower(school), <<109, 97, 115, 116, 101, 114>>) \/ StartsWith(Lower(school), <<98, 97, 99, 104, 101, 108, 111, 114>>)

\* line 60: group 1 of re.search(r"\(([^)]+)\)", school), or None
paren_group(s) ==
    LET opens == {i \in 1..Len(s) :
                     /\ s[i] = 40
                     /\ i + 1 <= Len(s) /\ s[i + 1] # 41
                     /\ \E j \in (i + 2)..Len(s) : s[j] = 41}
        i == Least(opens)
        j == Least({q \in (i + 2)..Len(s) : s[q] = 41})
    IN  IF opens = {} THEN None ELSE SubSeq(s, i + 1, j - 1)

\* lines 65-71: the first record of edus of UNSW without a degree, or 0
attach_target(edus) ==
    LET c == {n \in 1..Len(edus) : is_unsw(OrEmpty(edus[n].school)) /\ ~Truthy(edus[n].degree)}
    IN  IF c = {} THEN 0 ELSE Least(c)

\* lines 47-77: one record of profile.education; st holds edus and
\* pending_volunteer
normalize_education_record(st, e, base_text) ==
    LET school == Strip(OrEmpty(e.school))
        pm == paren_group(school)
        maj == IF pm # None THEN pm ELSE e.major
        x == attach_target(st.edus)
    IN  IF school = <<>> \/ is_title_only(school) THEN st
        ELSE IF Contains(Lower(school), <<118, 111, 108, 117, 110, 116, 101, 101, 114>>)
        THEN [st EXCEPT !.pending_volunteer = Append(@, school)]
        ELSE IF degree_in_school(school) /\ ~Truthy(e.degree)
        THEN IF x # 0
             THEN [st EXCEPT !.edus[x].degree = school,
                             !.edus[x].major = IF Truthy(maj) /\ ~Truthy(@) THEN maj ELSE @]
             ELSE [st EXCEPT !.edus = Append(@,
                       Edu(IF is_unsw(base_text) THEN UNSW ELSE <<>>, school, maj, e.start, e.end))]
        ELSE [st EXCEPT !.edus = Append(@,
                  Edu(norm_school_name(school), e.degree, e.major, e.start, e.end))]

RECURSIVE normalize_education_records(_, _, _)
normalize_education_records(st, es, base_text) ==
    IF es = <<>> THEN st
    ELSE normalize_education_records(normalize_education_record(st, es[1], base_text),
                                     Tail(es), base_text)

\* lines 79-87: the first record of every (school, degree)
dedup_education(edus) ==
    LET key(e) == << OrEmpty(e.school), OrEmpty(e.degree) >>
    IN  Pick(edus, {n \in 1..Len(edus) : \A m \in 1..(n - 1) : key(edus[m]) # key(edus[n])})

\* the experience list with pending_volunteer added to the bullets of its
\* first record
append_volunteer(experience, pending_volunteer) ==
    [experience EXCEPT ![1].bullets = @ \o pending_volunteer]

\* lines 90-93
move_volunteer(experience, pending_volunteer) ==
    IF pending_volunteer # <<>> /\ experience # <<>>
    THEN append_volunteer(experience, pending_volunteer)
    ELSE experience

\* lines 43-93: the education and the experience of the profile afterwards
normalize_education(p, base_text) ==
    LET st == normalize_education_records([edus |-> <<>>, pending_volunteer |-> <<>>],
                                          p.education, base_text)
    IN  [p EXCEPT !.education = dedup_education(st.edus),
                  !.experience = move_volunteer(p.experience, st.pending_volunteer)]

\* line 110: the bullet cur is continued by the bullet nxt
broken_bullet(cur, nxt) ==
    \/ /\ cur # <<>> /\ cur[Len(cur)] = 40
       /\ nxt # <<>> /\ nxt[Len(nxt)] = 41
    \/ /\ ~(cur # <<>> /\ cur[Len(cur)] \in {46, 33, 63, 41})
       /\ nxt # <<>> /\ IsLowerCh(nxt[1])

\* lines 100-117
RECURSIVE merge_broken_bullets(_)
merge_broken_bullets(bullets) ==
    IF bullets = <<>> THEN <<>>
    ELSE LET cur == Strip(OrEmpty(bullets[1]))
             nxt == Strip(OrEmpty(bullets[2]))
         IN  IF Len(bullets) >= 2 /\ broken_bullet(cur, nxt)
             THEN << Strip(cur \o << 32 >> \o nxt) >> \o merge_broken_bullets(Drop(bullets, 2))
             ELSE << cur >> \o merge_broken_bullets(Tail(bullets))

\* lines 120-128
normalize_experience_projects(p) ==
    [p EXCEPT !.projects = [n \in 1..Len(p.projects) |->
                               [p.projects[n] EXCEPT !.bullets = merge_broken_bullets(@)]]]

\* str.isupper
isupper(s) == (\E i \in 1..Len(s) : IsUpper(s[i])) /\ ~(\E i \in 1..Len(s) : IsLowerCh(s[i]))

\* str.title
title(s) ==
    [i \in 1..Len(s) |->
        IF i > 1 /\ IsAlpha(s[i - 1]) THEN LowerChar(s[i]) ELSE UpperChar(s[i])]

\* line 142
CASING ==
    { << <<106, 97, 118, 97, 115, 99, 114, 105, 112, 116>>, <<74, 97, 118, 97, 83, 99, 114, 105, 112, 116>> >>, << <<116, 101, 110, 115, 111, 114, 102, 108, 111, 119>>, <<84, 101, 110, 115, 111, 114, 70, 108, 111, 119>> >>,
      << <<102, 97, 115, 116, 97, 112, 105>>, <<70, 97, 115, 116, 65, 80, 73>> >>, << <<112, 111, 115, 116, 103, 114, 101, 115>>, <<80, 111, 115, 116, 103, 114, 101, 83, 81, 76>> >>,
      << <<112, 121, 116, 111, 114, 99, 104>>, <<80, 121, 84, 111, 114, 99, 104>> >> }

has_casing(low) == \E c \in CASING : c[1] = low

casing_of(low) == (CHOOSE c \in CASING : c[1] = low)[2]

\* lines 143-149
fix_casing(skills) ==
    [n \in 1..Len(skills) |->
        IF has_casing(Strip(Lower(skills[n]))) THEN casing_of(Strip(Lower(skills[n])))
        ELSE skills[n]]

\* line 151: the dict {s.lower(): s for s in temp} as the list of its items;
\* a key stays where it was first inserted and holds the last value
pres_of(temp) ==
    LET firsts == {n \in 1..Len(temp) : \A m \in 1..(n - 1) : Lower(temp[m]) # Lower(temp[n])}
        last(n) == Greatest({m \in 1..Len(temp) : Lower(temp[m]) = Lower(temp[n])})
    IN  Pick([n \in 1..Len(temp) |-> [k |-> Lower(temp[n]), v |-> temp[last(n)]]], firsts)

\* lines 153-154
has(pres, key) == \E n \in 1..Len(pres) : pres[n].k = key

\* lines 137-139
add(out, s) == IF \E n \in 1..Len(out) : Lower(out[n]) = Lower(s) THEN out ELSE Append(out, s)

\* lines 157-178: the keys that are replaced, in the order of the code, and
\* what replaces them
PHRASES ==
    << [keys |-> << <<97, 108, 103, 111, 114, 105, 116, 104, 109, 115>>, <<100, 97, 116, 97, 32, 115, 116, 114, 117, 99, 116, 117, 114, 101, 115>> >>, phrase |-> <<65, 108, 103, 111, 114, 105, 116, 104, 109, 115, 32, 38, 32, 68, 97, 116, 97, 32, 83, 116, 114, 117, 99, 116, 117, 114, 101, 115>>],
       [keys |-> << <<97, 108, 103, 111, 114, 105, 116, 104, 109, 115>>, <<99, 111, 109, 112, 108, 101, 120, 105, 116, 121>> >>, phrase |-> <<65, 108, 103, 111, 114, 105, 116, 104, 109, 105, 99, 32, 67, 111, 109, 112, 108, 101, 120, 105, 116, 121>>],
       [keys |-> << <<103, 114, 97, 112, 104, 115>>, <<116, 114, 101, 101, 115>> >>, phrase |-> <<71, 114, 97, 112, 104, 47, 84, 114, 101, 101, 32, 65, 108, 103, 111, 114, 105, 116, 104, 109, 115>>],
       [keys |-> << <<112, 121, 116, 104, 111, 110>>, <<110, 117, 109, 112, 121>> >>, phrase |-> <<80, 121, 116, 104, 111, 110, 32, 43, 32, 78, 117, 109, 80, 121>>],
       [keys |-> << <<115, 101, 97, 114, 99, 104>>, <<112, 108, 97, 110, 110, 105, 110, 103>> >>, phrase |-> <<83, 101, 97, 114, 99, 104, 32, 38, 32, 80, 108, 97, 110, 110, 105, 110, 103>>],
       [keys |-> << <<108, 111, 103, 105, 99>>, <<105, 110, 102, 101, 114, 101, 110, 99, 101>> >>, phrase |-> <<76, 111, 103, 105, 99, 32, 38, 32, 73, 110, 102, 101, 114, 101, 110, 99, 101>>],
       [keys |-> << <<107, 110, 111, 119, 108, 101, 100, 103, 101, 32, 114, 101, 112, 114, 101, 115, 101, 110, 116, 97, 116, 105, 111, 110>> >>, phrase |-> <<75, 110, 111, 119, 108, 101, 100, 103, 101, 32, 82, 101, 112, 114, 101, 115, 101, 110, 116, 97, 116, 105, 111, 110>>],
       [keys |-> << <<97, 114, 116, 105, 102, 105, 99, 105, 97, 108, 32, 105, 110, 116, 101, 108, 108, 105, 103, 101, 110, 99, 101>> >>, phrase |-> <<65, 114, 116, 105, 102, 105, 99, 105, 97, 108, 32, 73, 110, 116, 101, 108, 108, 105, 103, 101, 110, 99, 101>>],
       [keys |-> << <<100, 121, 110, 97, 109, 105, 99, 32, 112, 114, 111, 103, 114, 97, 109, 109, 105, 110, 103>> >>, phrase |-> <<68, 121, 110, 97, 109, 105, 99, 32, 80, 114, 111, 103, 114, 97, 109, 109, 105, 110, 103>>],
       [keys |-> << <<114, 101, 99, 117, 114, 115, 105, 111, 110>> >>, phrase |-> <<82, 101, 99, 117, 114, 115, 105, 111, 110>>],
       [keys |-> << <<109, 97, 99, 104, 105, 110, 101, 32, 108, 101, 97, 114, 110, 105, 110, 103>> >>, phrase |-> <<77, 97, 99, 104, 105, 110, 101, 32, 76, 101, 97, 114, 110, 105, 110, 103>>],
       [keys |-> << <<115, 113, 108>> >>, phrase |-> <<83, 81, 76>>],
       [keys |-> << <<110, 108, 112>> >>, phrase |-> <<78, 76, 80>>],
       [keys |-> << <<99, 43, 43>> >>, phrase |-> <<67, 43, 43>>] >>

\* lines 156-178: st holds out and pres
RECURSIVE combine_phrases(_, _)
combine_phrases(st, rules) ==
    IF rules = <<>> THEN st
    ELSE LET r == rules[1]
         IN  IF \A n \in 1..Len(r.keys) : has(st.pres, r.keys[n])
             THEN combine_phrases(
                      [out |-> add(st.out, r.phrase),
                       pres |-> SelectSeq(st.pres, LAMBDA it : it.k \notin Range(r.keys))],
                      Tail(rules))
             ELSE combine_phrases(st, Tail(rules))

\* line 182
display_case(v) == IF isupper(v) THEN v ELSE title(v)

\* lines 181-182
RECURSIVE append_remaining(_, _)
append_remaining(out, pres) ==
    IF pres = <<>> THEN out
    ELSE append_remaining(add(out, display_case(pres[1].v)), Tail(pres))

\* lines 131-185
canonicalize_skill_list(skills) ==
    IF skills = <<>> THEN <<>>
    ELSE LET st == combine_phrases([out |-> <<>>, pres |-> pres_of(fix_casing(skills))], PHRASES)
         IN  append_remaining(st.out, st.pres)

(***************************************************************************)
(* Profile merging: src/modules/profile/extract.py                         *)
(***************************************************************************)
\* schemas.py, lines 29-41: the fields of Profile the upload handler reads
Prof(name, contact, location, summary, education, experience, projects, skills, languages) ==
    [name |-> name, contact |-> contact, location |-> location, summary |-> summary,
     education |-> education, experience |-> experience, projects |-> projects,
     skills |-> skills, languages |-> languages]

\* Profile()
BlankProfile == Prof(None, None, None, None, <<>>, <<>>, <<>>, <<>>, <<>>)

\* lines 414-415
pick(a, b) == IF Truthy(a) /\ Strip(a) # <<>> THEN a ELSE b

\* lines 417-428
merge_list(x, y) ==
    LET all == SelectSeq(x \o y, LAMBDA v : Truthy(v))
    IN  Pick(all, {n \in 1..Len(all) :
                      \A m \in 1..(n - 1) : Lower(Strip(all[m])) # Lower(Strip(all[n]))})

\* lines 412-444
merge_profiles(primary, secondary) ==
    Prof(pick(primary.name, secondary.name),
         pick(primary.contact, secondary.contact),
         pick(primary.location, secondary.location),
         pick(primary.summary, secondary.summary),
         IF primary.education # <<>> THEN primary.education ELSE secondary.education,
         IF primary.experience # <<>> THEN primary.experience ELSE secondary.experience,
         IF primary.projects # <<>> THEN primary.projects ELSE secondary.projects,
         merge_list(primary.skills, secondary.skills),
         merge_list(primary.languages, secondary.languages))

\* lines 469-475: the skill after trim, with its acronym or title case
englishize_skill(s) ==
    LET t == Strip(s)
    IN  IF Lower(t) \in { <<115, 113, 108>>, <<110, 108, 112>>, <<99, 43, 43>>, <<99, 35>> } THEN Upper(Lower(t))
        ELSE IF \E i \in 1..Len(t) : t[i] \in {32, 38, 43, 47} THEN t
        ELSE title(t)

\* lines 460-489
englishize_skills(skills) ==
    LET kept == SelectSeq(skills, LAMBDA s : Truthy(s))
        out == [n \in 1..Len(kept) |-> englishize_skill(kept[n])]
    IN  Pick(out, {n \in 1..Len(out) : \A m \in 1..(n - 1) : Lower(out[m]) # Lower(out[n])})

(***************************************************************************)
(* analyze_upload: src/modules/profile/router.py                           *)
(***************************************************************************)
\* lines 86-89: the record dst with the fields src sets
map_education_record(dst, src) ==
    [dst EXCEPT !.degree = IF Truthy(src.degree) THEN src.degree ELSE @,
                !.major = IF Truthy(src.major) THEN src.major ELSE @,
                !.start = IF Truthy(src.start) THEN src.start ELSE @,
                !.end = IF Truthy(src.end) THEN src.end ELSE @]

\* line 79: school_to_idx.get(key), 0 for None; the dict keeps the last
\* record of a school
school_to_idx(education, key) ==
    LET c == {n \in 1..Len(education) : Lower(OrEmpty(education[n].school)) = key}
    IN  IF c = {} THEN 0 ELSE Greatest(c)

\* lines 79-89: school_to_idx is built from the education before the loop
RECURSIVE map_education(_, _, _)
map_education(education, mapped, idx) ==
    IF mapped = <<>> THEN education
    ELSE LET j == school_to_idx(idx, Lower(OrEmpty(mapped[1].school)))
         IN  map_education(IF j = 0 THEN education
                           ELSE [education EXCEPT ![j] = map_education_record(@, mapped[1])],
                           Tail(mapped), idx)

\* lines 93-96
map_experience_record(dst, src) ==
    [dst EXCEPT !.company = IF Truthy(src.company) THEN src.company ELSE @,
                !.role = IF Truthy(src.role) THEN src.role ELSE @,
                !.start = IF Truthy(src.start) THEN src.start ELSE @,
                !.end = IF Truthy(src.end) THEN src.end ELSE @]

\* lines 90-96
map_experience(experience, mapped) ==
    [n \in 1..Len(experience) |->
        IF n <= Len(mapped) THEN map_experience_record(experience[n], mapped[n])
        ELSE experience[n]]

\* lines 76-99: reply is what the model answered; without an answer
\* strict_map_profile returns the profile itself (llm_map.py, lines 21-73)
strict_map_merge(p, reply) ==
    IF ~reply.ok THEN p
    ELSE [p EXCEPT !.education = map_education(@, reply.education, p.education),
                   !.experience = map_experience(@, reply.experience)]

\* line 49: the dict holds education, experience or projects
dict_usable(d) ==
    ~d.empty /\ (d.education # <<>> \/ d.experience # <<>> \/ d.projects # <<>>)

\* line 50 and schemas.py, lines 13-26: Profile(**d) accepts the dict;
\* school and company are declared str
dict_valid(d) ==
    /\ \A n \in DOMAIN d.education : d.education[n].school # None
    /\ \A n \in DOMAIN d.experience : d.experience[n].company # None
    /\ \A n \in DOMAIN d.projects : d.projects[n].company # None

\* line 50: Profile(**d); a project has no dates
profile_of_dict(d) ==
    Prof(d.name, d.contact, d.location, d.summary, d.education, d.experience,
         [n \in 1..Len(d.projects) |->
             Xp(d.projects[n].company, d.projects[n].role, None, None, d.projects[n].bullets)],
         d.skills, d.languages)

\* lines 116-119: the skills a course adds
course_skills_of(skills) == canonicalize_skill_list(englishize_skills(skills))

\* lines 123-132
merge_course_skills(skills, courses) ==
    LET merged == skills \o Flatten([n \in 1..Len(courses) |-> course_skills_of(courses[n])])
    IN  IF \A n \in 1..Len(courses) : course_skills_of(courses[n]) = <<>> THEN skills
        ELSE Pick(merged, {n \in 1..Len(merged) :
                              \A m \in 1..(n - 1) : Lower(merged[m]) # Lower(merged[n])})

\* lines 27-29 and 142-145; the pattern of line 23 compiles (and the calls
\* below run) where flags inside a pattern are accepted, and raises re.error
\* after line 28 where they are not
post_process(p, base_text, inline_flags_ok) ==
    IF ~inline_flags_ok THEN [p EXCEPT !.contact = clean_contact(@, base_text)]
    ELSE LET q == [p EXCEPT !.contact = clean_contact(@, base_text),
                            !.location = clean_location(@)]
             r == normalize_experience_projects(normalize_education(q, base_text))
         IN  [r EXCEPT !.skills = canonicalize_skill_list(@)]

\* lines 150-151
strip_address(p) ==
    IF Truthy(p.location) /\ StartsWith(Lower(p.location), <<97, 100, 100, 114, 101, 115, 115, 58>>)
    THEN [p EXCEPT !.location = Strip(Drop(@, Len(<<97, 100, 100, 114, 101, 115, 115, 58>>)))]
    ELSE p

\* the state of a call of analyze_upload: file is in_text, free_text and
\* use_llm_strict_map are the form fields; file_result and text_result are
\* what analyze_text_to_profile answers for the two texts, reply what the
\* strict mapper answers, courses the skills of the courses found, and
\* inline_flags_ok tells whether re accepts a flag inside a pattern
UploadCall(free_text, use_llm_strict_map, file_result, text_result, reply, courses,
           inline_flags_ok) ==
    [at |-> "entry", free_text |-> free_text, use_llm_strict_map |-> use_llm_strict_map,
     file_result |-> file_result, text_result |-> text_result, reply |-> reply,
     courses |-> courses, inline_flags_ok |-> inline_flags_ok,
     uploaded |-> FALSE, has_file_profile |-> FALSE, file_profile |-> BlankProfile,
     has_text_profile |-> FALSE, text_profile |-> BlankProfile,
     prof |-> BlankProfile, status |-> 0]

uploadOthers == <<pc, profile, jd, result, prevScore, added, doc, jdst, calls, jobsVars>>

\* lines 33-47: the text of the file goes to parse_text_preserve
UploadEntry ==
    /\ up.at = "entry"
    /\ IF in_text = <<>> /\ up.free_text = <<>>
       THEN up' = [up EXCEPT !.at = "raised", !.status = 400] /\ UNCHANGED tp
       ELSE IF in_text # <<>>
       THEN up' = [up EXCEPT !.at = "parse", !.uploaded = TRUE] /\ tp' = NoSegmenterLocals
       ELSE up' = [up EXCEPT !.at = "free_text"] /\ UNCHANGED tp
    /\ UNCHANGED <<in_text, uploadOthers>>

\* lines 47-54
UploadFileProfile ==
    /\ up.at = "parse"
    /\ tp.at = "returned"
    /\ IF dict_usable(tp.profile)
       THEN IF dict_valid(tp.profile)
            THEN up' = [up EXCEPT !.at = "free_text", !.has_file_profile = TRUE,
                                  !.file_profile = profile_of_dict(tp.profile)]
            ELSE up' = [up EXCEPT !.at = "raised", !.status = 500]
       ELSE up' = [up EXCEPT !.at = "free_text", !.has_file_profile = TRUE,
                             !.file_profile = up.file_result]
    /\ UNCHANGED <<in_text, tp, uploadOthers>>

\* lines 59-64
UploadFreeText ==
    /\ up.at = "free_text"
    /\ IF Strip(up.free_text) # <<>>
       THEN up' = [up EXCEPT !.at = "merge", !.has_text_profile = TRUE,
                             !.text_profile = up.text_result]
       ELSE up' = [up EXCEPT !.at = "merge"]
    /\ UNCHANGED <<in_text, tp, uploadOthers>>

\* lines 66-73
UploadMerge ==
    /\ up.at = "merge"
    /\ IF up.has_file_profile /\ up.has_text_profile
       THEN up' = [up EXCEPT !.at = "map",
                             !.prof = merge_profiles(up.file_profile, up.text_profile)]
       ELSE IF up.has_file_profile
       THEN up' = [up EXCEPT !.at = "map", !.prof = up.file_profile]
       ELSE IF up.has_text_profile
       THEN up' = [up EXCEPT !.at = "map", !.prof = up.text_profile]
       ELSE up' = [up EXCEPT !.at = "raised", !.status = 400]
    /\ UNCHANGED <<in_text, tp, uploadOthers>>

\* lines 75-99
UploadStrictMap ==
    /\ up.at = "map"
    /\ up' = [up EXCEPT !.at = "skills",
                        !.prof = IF up.use_llm_strict_map
                                 THEN strict_map_merge(@, up.reply) ELSE @]
    /\ UNCHANGED <<in_text, tp, uploadOthers>>

\* lines 101-136
UploadSkills ==
    /\ up.at = "skills"
    /\ LET skills == IF up.uploaded THEN up.prof.skills
                     ELSE englishize_skills(up.prof.skills)
       IN  up' = [up EXCEPT !.at = "post",
                            !.prof.skills = merge_course_skills(skills, up.courses)]
    /\ UNCHANGED <<in_text, tp, uploadOthers>>

\* lines 138-147
UploadPostProcess ==
    /\ up.at = "post"
    /\ up' = [up EXCEPT !.at = "return",
                        !.prof = IF up.uploaded THEN @
                                 ELSE post_process(@, up.free_text, up.inline_flags_ok)]
    /\ UNCHANGED <<in_text, tp, uploadOthers>>

\* lines 149-159
UploadReturn ==
    /\ up.at = "return"
    /\ up' = [up EXCEPT !.at = "returned", !.status = 200, !.prof = strip_address(@)]
    /\ UNCHANGED <<in_text, tp, uploadOthers>>

NextUpload ==
    \/ UploadEntry
    \/ NextSegmenter
    \/ UploadFileProfile
    \/ UploadFreeText
    \/ UploadMerge
    \/ UploadStrictMap
    \/ UploadSkills
    \/ UploadPostProcess
    \/ UploadReturn

(***************************************************************************)
(* Inputs of analyze_upload                                                *)
(***************************************************************************)
\* the texts of the uploaded file; <<>> when no file is sent
UploadTexts ==
    { <<>>,
      << <<74, 97, 110, 101, 32, 68, 111, 101>>, <<69, 100, 117, 99, 97, 116, 105, 111, 110>>, <<85, 110, 105, 118, 101, 114, 115, 105, 116, 121, 32, 111, 102, 32, 77, 101, 108, 98, 111, 117, 114, 110, 101>>,
         <<66, 97, 99, 104, 101, 108, 111, 114, 32, 111, 102, 32, 83, 99, 105, 101, 110, 99, 101, 32, 40, 67, 111, 109, 112, 117, 116, 101, 114, 32, 83, 99, 105, 101, 110, 99, 101, 41>>,
         <<69, 120, 112, 101, 114, 105, 101, 110, 99, 101>>, <<83, 111, 102, 116, 119, 97, 114, 101, 32, 69, 110, 103, 105, 110, 101, 101, 114, 44, 32, 65, 99, 109, 101, 32, 67, 111, 114, 112>>, <<8226, 32, 66, 117, 105, 108, 116, 32, 65, 80, 73, 115>>,
         <<8226, 32, 76, 101, 100, 32, 116, 101, 97, 109>>, <<83, 107, 105, 108, 108, 115>>, <<106, 97, 118, 97, 115, 99, 114, 105, 112, 116, 44, 32, 83, 81, 76>> >>,
      << <<69, 68, 85, 67, 65, 84, 73, 79, 78, 58>>, <<66, 97, 99, 104, 101, 108, 111, 114, 32, 111, 102, 32, 83, 99, 105, 101, 110, 99, 101, 32, 40, 67, 111, 109, 112, 117, 116, 101, 114, 32, 83, 99, 105, 101, 110, 99, 101, 41>>, <<50, 48, 49, 57, 32, 45, 32, 50, 48, 50, 50>> >>,
      << <<69, 120, 112, 101, 114, 105, 101, 110, 99, 101>>, <<65, 99, 109, 101, 32, 67, 111, 114, 112, 32, 45, 32, 69, 110, 103, 105, 110, 101, 101, 114>>, <<50, 48, 50, 48, 32, 45, 32, 80, 114, 101, 115, 101, 110, 116>>, <<8226, 32, 50, 48, 49, 57>>,
         <<8226, 32, 66, 117, 105, 108, 116, 32, 65, 80, 73, 115>>, <<76, 101, 100, 32, 116, 104, 101, 32, 116, 101, 97, 109>>, <<71, 108, 111, 98, 101, 120, 32, 124, 32, 65, 110, 97, 108, 121, 115, 116>>, <<8226, 32, 87, 114, 111, 116, 101, 32, 114, 101, 112, 111, 114, 116, 115>> >>,
      << <<83, 107, 105, 108, 108, 115, 58, 32, 106, 97, 118, 97, 115, 99, 114, 105, 112, 116, 44, 32, 115, 113, 108>> >> }

FreeTexts == { <<>>, << 32 >>, <<73, 32, 115, 116, 117, 100, 121, 32, 97, 116, 32, 85, 78, 83, 87, 44, 32, 119, 114, 105, 116, 101, 32, 116, 111, 32, 106, 97, 110, 101, 64, 101, 120, 97, 109, 112, 108, 101, 46, 99, 111, 109>> }

\* what analyze_text_to_profile answers (extract.py, lines 447-457): the
\* profile of the LLM when there is one, the rule-based profile otherwise
AnalyzerProfiles ==
    { Prof(<<74, 46, 32, 68, 111, 101>>, <<69, 109, 97, 105, 108, 58, 32, 106, 100, 64, 101, 120, 97, 109, 112, 108, 101, 46, 99, 111, 109>>, <<65, 100, 100, 114, 101, 115, 115, 58, 32, 49, 32, 77, 97, 105, 110, 32, 83, 116>>, None,
           << Edu(<<86, 111, 108, 117, 110, 116, 101, 101, 114, 32, 97, 116, 32, 82, 101, 100, 32, 67, 114, 111, 115, 115>>, None, None, None, None),
              Edu(<<85, 78, 83, 87>>, None, None, <<50, 48, 49, 57>>, None),
              Edu(<<77, 97, 115, 116, 101, 114, 32, 111, 102, 32, 73, 84, 32, 40, 68, 97, 116, 97, 32, 83, 99, 105, 101, 110, 99, 101, 41>>, None, None, None, None),
              Edu(<<69, 100, 117, 99, 97, 116, 105, 111, 110>>, None, None, None, None) >>,
           << Xp(<<65, 99, 109, 101>>, <<69, 110, 103, 105, 110, 101, 101, 114>>, <<50, 48, 50, 48>>, None, << <<66, 117, 105, 108, 116, 32, 65, 80, 73, 115>>, <<76, 101, 100, 32, 116, 101, 97, 109>> >>) >>,
           << Xp(<<80, 114, 111, 106, 101, 99, 116, 115>>, None, None, None,
                 << <<80, 97, 114, 115, 101, 114, 32, 40, 80, 121, 116, 104, 111, 110>>, <<70, 97, 115, 116, 65, 80, 73, 41>>, <<66, 117, 105, 108, 116, 32, 97, 32, 116, 111, 111, 108>>, <<97, 110, 100, 32, 115, 104, 105, 112, 112, 101, 100, 32, 105, 116, 46>> >>) >>,
           << <<106, 97, 118, 97, 115, 99, 114, 105, 112, 116>>, <<112, 121, 116, 104, 111, 110>>, <<110, 117, 109, 112, 121>>, <<83, 81, 76>>, <<114, 101, 97, 99, 116>> >>,
           << <<69, 110, 103, 108, 105, 115, 104>> >>),
      Prof(None, None, None, <<68, 97, 116, 97, 32, 112, 101, 114, 115, 111, 110>>, <<>>, <<>>, <<>>,
           << <<84, 101, 110, 115, 111, 114, 70, 108, 111, 119>>, <<112, 111, 115, 116, 103, 114, 101, 115>>, <<65, 87, 83>> >>, <<>>) }

\* what the strict mapper answers (llm_map.py, lines 60-73)
MapReplies ==
    { [ok |-> FALSE, education |-> <<>>, experience |-> <<>>],
      [ok |-> TRUE,
       education |-> << Edu(<<117, 110, 105, 118, 101, 114, 115, 105, 116, 121, 32, 111, 102, 32, 109, 101, 108, 98, 111, 117, 114, 110, 101>>, <<77, 97, 115, 116, 101, 114, 32, 111, 102, 32, 65, 114, 116, 115>>, None, <<50, 48, 49, 56>>, None) >>,
       experience |-> << Xp(<<71, 108, 111, 98, 101, 120>>, <<67, 84, 79>>, None, None, << <<73, 110, 118, 101, 110, 116, 101, 100, 32, 116, 104, 105, 110, 103, 115>> >>) >>],
      [ok |-> TRUE,
       education |-> << Edu(<<77, 111, 110, 97, 115, 104>>, <<80, 104, 68>>, None, None, None) >>,
       experience |-> << Xp(<<>>, None, <<50, 48, 50, 49>>, <<80, 114, 101, 115, 101, 110, 116>>, <<>>) >>] }

\* the skills of the courses the course database finds in the texts
CourseSkills == { <<>>, << << <<106, 97, 118, 97, 115, 99, 114, 105, 112, 116>>, <<115, 113, 108>> >> >> }

InitUpload ==
    /\ in_text \in UploadTexts
    /\ tp = [at |-> "idle"]
    /\ up \in { UploadCall(f, m, a, b, r, c, k) :
                   f \in FreeTexts, m \in BOOLEAN, a \in AnalyzerProfiles,
                   b \in AnalyzerProfiles, r \in MapReplies, c \in CourseSkills,
                   k \in BOOLEAN }
    /\ calls = [n |-> 0, jd |-> {}, text |-> {}]
    /\ pc = "idle"
    /\ profile = None
    /\ jd = None
    /\ result = NoResult
    /\ prevScore = -1
    /\ added = 0
    /\ doc = None
    /\ jdst = NoLocals
    /\ JobsIdle

SpecUpload == InitUpload /\ [][NextUpload]_vars

(***************************************************************************)
(* Properties of analyze_upload and of the post-processing                 *)
(***************************************************************************)
\* the call works on the profile parse_text_preserve returned
FromSegmenter ==
    /\ up.at \in {"free_text", "merge", "map", "skills", "post", "return", "returned"}
    /\ up.uploaded
    /\ tp.at = "returned"
    /\ dict_usable(tp.profile)

\* the bullets of the records of a list, record by record
BulletsOf(experience) == [n \in 1..Len(experience) |-> experience[n].bullets]

\* C17: the bullets of the Experience records parse_text_preserve returns
\* are lines of the Experience section in the order of the section, and
\* what analyze_upload does with that profile afterwards (merge with the
\* profile of the free text, strict mapping, course skills, the
\* post-processing block, which normalize_experience_projects belongs to)
\* leaves the bullets of every experience record as they were returned.
C17_BulletsKept ==
    /\ BulletsInSourceOrder
    /\ SegReturned => BulletsOf(tp.profile.experience) = BulletsOf(tp.exp \o tp.moved_to_exp)
    /\ (FromSegmenter /\ tp.profile.experience # <<>>
            /\ up.at \in {"map", "skills", "post", "return", "returned"})
           => BulletsOf(up.prof.experience) = BulletsOf(tp.profile.experience)
    /\ up.at = "post"
           => normalize_experience_projects(up.prof).experience = up.prof.experience

\* an uploaded resume came back with the bullets of its Experience record
\* in place, after the strict mapper renamed the company
C17_Witness ==
    /\ up.at = "returned"
    /\ FromSegmenter
    /\ up.use_llm_strict_map /\ up.reply.ok
    /\ Len(up.prof.experience) = 1
    /\ up.prof.experience[1].company = <<71, 108, 111, 98, 101, 120>>
    /\ up.prof.experience[1].bullets = << <<66, 117, 105, 108, 116, 32, 65, 80, 73, 115>>, <<76, 101, 100, 32, 116, 101, 97, 109>> >>

\* the value v of the rule-based profile is kept as w
Kept(v, w) == (Truthy(v) /\ Strip(v) # <<>>) => w = v

\* C19: after the merge with the profile of the augmenter (the profile read
\* from the free text, the answer of the strict mapper), every scalar field
\* parse_text_preserve set keeps its value: name, contact, location, summary
\* and, record by record, degree, major, start, end, company and role.
C19_RuleValuesKept ==
    (up.at = "skills" /\ FromSegmenter) =>
        LET r == up.file_profile
            p == up.prof
        IN  /\ \A f \in {"name", "contact", "location", "summary"} : Kept(r[f], p[f])
            /\ r.education # <<>> =>
                   /\ Len(p.education) = Len(r.education)
                   /\ \A n \in DOMAIN r.education :
                          \A f \in {"degree", "major", "start", "end"} :
                              Kept(r.education[n][f], p.education[n][f])
            /\ r.experience # <<>> =>
                   /\ Len(p.experience) = Len(r.experience)
                   /\ \A n \in DOMAIN r.experience :
                          \A f \in {"company", "role", "start", "end"} :
                              Kept(r.experience[n][f], p.experience[n][f])

\* C20: the post-processing block returns every skill that has an entry in
\* the casing map in the form of that entry, whatever its casing before.
C20_CasingMapKept ==
    [][(up.at = "post" /\ ~up.uploaded /\ up.inline_flags_ok) =>
          \A n \in DOMAIN up.prof.skills :
              has_casing(Strip(Lower(up.prof.skills[n])))
                  => casing_of(Strip(Lower(up.prof.skills[n]))) \in Range(up'.prof.skills)]_vars

(***************************************************************************)
(* A caller that runs parse_html_to_jd and parse_text_preserve side by     *)
(* side, call after call                                                   *)
(***************************************************************************)
\* how many calls the caller issues after the first two
MaxCalls == 3

CallDocs ==
    { [url |-> <<104, 116, 116, 112, 115, 58, 47, 47, 119, 119, 119, 46, 115, 101, 101, 107, 46, 99, 111, 109, 46, 97, 117, 47, 106, 111, 98, 47, 49, 50, 51>>, ld_scripts |-> << LdPosting >>,
       next_data |-> NextDataJob,
       og_title |-> PageLists.og_title, title_tag |-> PageLists.title_tag,
       og_site_name |-> PageLists.og_site_name, company_tag |-> PageLists.company_tag,
       meta_description |-> PageLists.meta_description,
       dom_title |-> PageLists.dom_title, dom_company |-> PageLists.dom_company,
       dom_location |-> PageLists.dom_location, body |-> PageLists.body],
      [url |-> None, ld_scripts |-> <<>>, next_data |-> JNull,
       og_title |-> PageBare.og_title, title_tag |-> PageBare.title_tag,
       og_site_name |-> PageBare.og_site_name, company_tag |-> PageBare.company_tag,
       meta_description |-> PageBare.meta_description,
       dom_title |-> PageBare.dom_title, dom_company |-> PageBare.dom_company,
       dom_location |-> PageBare.dom_location, body |-> PageBare.body] }

CallTexts ==
    { << <<74, 97, 110, 101, 32, 68, 111, 101>>, <<69, 120, 112, 101, 114, 105, 101, 110, 99, 101>>, <<83, 111, 102, 116, 119, 97, 114, 101, 32, 69, 110, 103, 105, 110, 101, 101, 114, 44, 32, 65, 99, 109, 101, 32, 67, 111, 114, 112>>, <<8226, 32, 66, 117, 105, 108, 116, 32, 65, 80, 73, 115>>,
         <<83, 107, 105, 108, 108, 115>>, <<80, 121, 116, 104, 111, 110, 44, 32, 83, 81, 76, 44, 32, 80, 121, 116, 104, 111, 110>> >>,
      << <<69, 100, 117, 99, 97, 116, 105, 111, 110>>, <<85, 110, 105, 118, 101, 114, 115, 105, 116, 121, 32, 111, 102, 32, 77, 101, 108, 98, 111, 117, 114, 110, 101>>, <<83, 107, 105, 108, 108, 115, 58, 32, 112, 121, 116, 104, 111, 110, 44, 32, 115, 113, 108>> >> }

\* parse_html_to_jd has ended: the caller keeps what it got for the
\* document and calls again
CallJD ==
    /\ pc \in {"returned", "raised"}
    /\ calls.n < MaxCalls
    /\ calls' = [calls EXCEPT !.n = @ + 1,
                              !.jd = @ \cup {[input |-> doc, ended |-> pc, output |-> jdst]}]
    /\ doc' \in CallDocs
    /\ jdst' = NoLocals
    /\ pc' = "json_ld"
    /\ UNCHANGED <<profile, jd, result, prevScore, added, in_text, tp, up, jobsVars>>

\* parse_text_preserve has returned: the caller keeps what it got for the
\* text and calls again
CallSegmenter ==
    /\ tp.at = "returned"
    /\ calls.n < MaxCalls
    /\ calls' = [calls EXCEPT !.n = @ + 1,
                              !.text = @ \cup {[input |-> in_text, output |-> tp.profile]}]
    /\ in_text' \in CallTexts
    /\ tp' = NoSegmenterLocals
    /\ UNCHANGED <<pc, profile, jd, result, prevScore, added, doc, jdst, up, jobsVars>>

NextCalls ==
    \/ NextJD
    \/ NextSegmenter
    \/ CallJD
    \/ CallSegmenter

InitCalls ==
    /\ pc = "json_ld"
    /\ doc \in CallDocs
    /\ jdst = NoLocals
    /\ in_text \in CallTexts
    /\ tp = NoSegmenterLocals
    /\ up = [at |-> "idle"]
    /\ calls = [n |-> 0, jd |-> {}, text |-> {}]
    /\ profile = None
    /\ jd = None
    /\ result = NoResult
    /\ prevScore = -1
    /\ added = 0
    /\ JobsIdle

SpecCalls == InitCalls /\ [][NextCalls]_vars

HeaderAliases == UNION {HDR_ALIAS[n].aliases : n \in 1..Len(HDR_ALIAS)}

\* the buckets, the preamble and the current section after the first n
\* lines of the loop of lines 53-69
SectionsAfter(lines, n) ==
    assign_sections([bucket |-> EmptyBucket, preamble |-> <<>>, current |-> NoSection],
                    SubSeq(lines, 1, n))

\* the line is appended to the bucket of the current section, or to the
\* preamble when no section is open, and the current section stays
AppendedAsContent(before, after, ln) ==
    IF before.current = NoSection
    THEN after = [before EXCEPT !.preamble = Append(@, ln)]
    ELSE after = [before EXCEPT !.bucket[before.current] = Append(@, ln)]

\* C21: a line changes the current section only if its normalized form is
\* one of the header aliases; every other line is appended to the bucket of
\* the section the most recent header opened, or to the preamble if no header
\* has been seen.
C21_HeaderOnlyByAlias ==
    tp.at = "preamble" =>
        \A n \in 1..Len(tp.lines) :
            norm_header(tp.lines[n]) \notin HeaderAliases =>
                AppendedAsContent(SectionsAfter(tp.lines, n - 1),
                                  SectionsAfter(tp.lines, n), tp.lines[n])

(***************************************************************************)
(* Properties of the experience loop of parse_text_preserve                *)
(***************************************************************************)
\* the loop of lines 295-343 after the first n lines of the bucket, before
\* the commit of line 344
RECURSIVE experience_after(_, _, _)
experience_after(xs, lines, n) ==
    IF n = 0 THEN xs
    ELSE experience_line(experience_after(xs, lines, n - 1), lines[n])

\* the line reaches the role-first rule of line 318 or the "Company - Role"
\* rule of line 328
exp_header_line(ln) ==
    LET parts == company_role_parts(ln)
    IN  /\ ln # <<>> /\ ~is_header_line(ln) /\ ~is_bullet(ln)
        /\ ~date_range_from_line(ln).ok
        /\ \/ role_first(ln).ok
           \/ Len(parts) >= 2 /\ HasAlpha(parts[1]) /\ HasAlpha(parts[2])

\* the company and the role the header line carries
exp_header_of(ln) ==
    LET rf == role_first(ln)
        parts == company_role_parts(ln)
    IN  IF rf.ok THEN [company |-> rf.company, role |-> rf.role]
        ELSE [company |-> Strip(parts[1]), role |-> Strip(parts[2])]

\* the record has neither a company nor a role
Headless(x) == Strip(x.company) = <<>> /\ Strip(x.role) = <<>>

\* the record has a date or a bullet
HasDatesOrBullets(x) == Truthy(x.start) \/ Truthy(x.end) \/ x.bullets # <<>>

\* the header line fills the open record in place and commits nothing
FilledInPlace(before, after, h) ==
    /\ after.exp = before.exp
    /\ after.open
    /\ after.curx = [before.curx EXCEPT !.company = h.company, !.role = h.role]

\* the header line commits the open record and opens a new one
CommittedThenOpened(before, after, h) ==
    /\ after.exp = Append(before.exp, before.curx)
    /\ after.open
    /\ after.curx = Xp(h.company, h.role, None, None, <<>>)

\* the step of the loop on line n of the experience bucket follows the
\* protocol of the open record
ExpProtocolAt(lines, n) ==
    LET before == experience_after(NoExperience, lines, n - 1)
        after == experience_after(NoExperience, lines, n)
        h == exp_header_of(lines[n])
    IN  /\ exp_header_line(lines[n]) /\ before.open =>
              IF Headless(before.curx)
              THEN FilledInPlace(before, after, h)
              ELSE CommittedThenOpened(before, after, h)
        /\ \A k \in 1..Len(after.exp) :
              HasDatesOrBullets(after.exp[k]) => ~Headless(after.exp[k])

\* C22: a role-first or "Company - Role" header line that arrives while the
\* open experience record has neither company nor role fills that record,
\* keeps its dates and bullets and commits nothing; a header line that
\* arrives while the open record has a company or a role commits that record
\* and opens a new one; no record is committed inside the loop with dates or
\* bullets but without a company or a role.
C22_OpenRecordProtocol ==
    tp.at = "projects" =>
        \A n \in 1..Len(tp.bucket.experience) : ExpProtocolAt(tp.bucket.experience, n)

\* a date-range line opened the record, the role-first line after it filled
\* it, and the call returned that one record with its dates and bullets
C22_Witness ==
    /\ tp.at = "returned"
    /\ Len(tp.bucket.experience) >= 2
    /\ date_range_from_line(tp.bucket.experience[1]).ok
    /\ exp_header_line(tp.bucket.experience[2])
    /\ Len(tp.exp) = 1
    /\ tp.exp[1].company = <<66, 101, 116, 97, 32, 80, 116, 121, 32, 76, 116, 100>>
    /\ tp.exp[1].role = <<68, 97, 116, 97, 32, 65, 110, 97, 108, 121, 115, 116>>
    /\ tp.exp[1].start = <<50, 48, 50, 48>>
    /\ tp.exp[1].end = <<80, 114, 101, 115, 101, 110, 116>>
    /\ tp.exp[1].bullets = << <<87, 114, 111, 116, 101, 32, 114, 101, 112, 111, 114, 116, 115>>, <<67, 108, 101, 97, 110, 101, 100, 32, 100, 97, 116, 97>> >>

(***************************************************************************)
(* Properties of the projects loop of parse_text_preserve                  *)
(***************************************************************************)
\* the lines of the Projects section after the merge of lines 347-359, the
\* bullet glyphs stripped, the empty ones left out
project_texts(bucket) ==
    LET merged == merge_brackets(bucket.projects)
        texts == [n \in 1..Len(merged) |->
                     IF is_bullet(merged[n]) THEN clean_bullet(merged[n]) ELSE merged[n]]
    IN  SelectSeq(texts, LAMBDA t : t # <<>>)

\* C23: the output has at most one project record, named "Projects", and
\* every non-empty line of the Projects section, after the merge of a line
\* with an unmatched opening parenthesis and the strip of bullet glyphs, is a
\* bullet of that record, in input order; no line of the section is dropped
\* or put into another output field.
C23_ProjectsKeepEveryLine ==
    tp.at = "returned" =>
        /\ Len(tp.projects) <= 1
        /\ tp.edu_from_projects = <<>>
        /\ IF project_texts(tp.bucket) = <<>> THEN tp.projects = <<>>
           ELSE /\ Len(tp.projects) = 1
                /\ tp.projects[1].company = <<80, 114, 111, 106, 101, 99, 116, 115>>
                /\ tp.projects[1].bullets = project_texts(tp.bucket)

(***************************************************************************)
(* Properties of the description fallback and of the two lists             *)
(***************************************************************************)
\* C24: if the tiers before the description fallback produced at least one
\* responsibility, the fallback adds no fragment of the pooled descriptions
\* or of the meta description to responsibilities or to requirements: both
\* lists leave the fallback as they entered it.
C24_FallbackGated ==
    [][ (pc = "fallback" /\ pc' = "post" /\ jdst.responsibilities # <<>>) =>
            /\ jdst'.responsibilities = jdst.responsibilities
            /\ jdst'.requirements = jdst.requirements ]_vars

\* the fallback was passed with a responsibility of an earlier tier, and the
\* pooled descriptions hold a fragment with a responsibility verb and one
\* with a requirement token that are in neither list
C24_Witness ==
    /\ pc = "post"
    /\ jdst.responsibilities # <<>>
    /\ \E b \in Range(description_bullets(jdst.desc_ld)) :
           /\ HasWord(b, RESP_VERBS)
           /\ b \notin Range(jdst.responsibilities)
    /\ \E b \in Range(description_bullets(jdst.desc_ld)) :
           /\ ~HasWord(b, RESP_VERBS) /\ HasWord(b, REQ_TOKENS)
           /\ b \notin Range(jdst.requirements)

\* the items of both lists
InBothLists == Range(jdst.responsibilities) \cap Range(jdst.requirements)

\* C26: in every ParsedJD that parse_html_to_jd returns no item is in both
\* responsibilities and requirements.
C26_ListsDisjoint == pc = "returned" => InBothLists = {}

(***************************************************************************)
(* Properties of the evidence lines of match                               *)
(***************************************************************************)
\* the hit tokens HK and HR of the call
HitTokens == (normalize_jd_key(jd) \cup normalize_jd_req(jd)) \cap normalize_profile(profile)

\* a token that is no stop-word, has at least 3 characters and no digit
MeaningfulToken(tok) ==
    /\ tok \notin STOP_TOKENS
    /\ Len(tok) >= 3
    /\ \A i \in 1..Len(tok) : ~IsDigit(tok[i])

\* the bullet holds a meaningful hit token
BulletHasEvidence(b) ==
    \E tok \in HitTokens : MeaningfulToken(tok) /\ Contains(Lower(b), tok)

\* the reason lines that carry the evidence label
EvidenceLines == SelectSeq(result.reasons, LAMBDA r : StartsWith(r, LBL_EVIDENCE))

\* the line pairs the prefix of an experience with one of its bullets that
\* holds a meaningful hit token
EvidenceLineJustified(line) ==
    \E n \in 1..Len(profile.experience) :
        \E k \in 1..Len(profile.experience[n].bullets) :
            /\ line = LBL_EVIDENCE \o evidence_prefix(profile.experience[n]) \o EVIDENCE_SEP
                          \o profile.experience[n].bullets[k]
            /\ BulletHasEvidence(profile.experience[n].bullets[k])

\* C25: every evidence reason line pairs an experience bullet whose
\* lower-cased text contains a hit token that is no stop-word, has at least 3
\* characters and no digit; a bullet with only filtered-out hit tokens gives
\* no evidence line; at most 3 evidence lines are emitted.
C25_EvidenceMeaningful ==
    pc = "matched" =>
        /\ Len(EvidenceLines) <= 3
        /\ \A n \in 1..Len(EvidenceLines) : EvidenceLineJustified(EvidenceLines[n])

(***************************************************************************)
(* modules/shared/cache.py and modules/jobs/session.py: the seen hashes of *)
(* a session.  A job is identified by its hash (Job.hash, the SHA-1 of     *)
(* title, company, location and url); a hash is a small number here.  The  *)
(* store of the TTLCache maps a session id to the set it holds; a key the  *)
(* store does not hold is outside its domain.  All calls of a behaviour    *)
(* fall inside one TTL window of 7200 seconds, so that no entry expires.   *)
(***************************************************************************)
\* the store of a new TTLCache (line 8 of cache.py)
EmptyStore == <<>>

\* cache.py lines 10-19: TTLCache.get, None read as the empty set by the caller
cache_get(store, key) == IF key \in DOMAIN store THEN store[key] ELSE {}

\* cache.py lines 21-22: TTLCache.set
cache_set(store, key, val) ==
    [k \in DOMAIN store \cup {key} |-> IF k = key THEN val ELSE store[k]]

\* session.py lines 9-13: a copy of the set the store holds
get_seen(store, session_id) == cache_get(store, session_id)

\* session.py lines 16-19, run without interruption
add_seen(store, session_id, hashes) ==
    cache_set(store, session_id, get_seen(store, session_id) \cup hashes)

(***************************************************************************)
(* modules/jobs/adapters: what a call of search_seek or search_linkedin    *)
(* may return.  The web search behind an adapter answers each call anew;   *)
(* the adapter keeps the results of its own site, drops those whose hash   *)
(* is in exclude_hashes and stops at limit jobs.                           *)
(***************************************************************************)
Sources == {"seek", "linkedin"}

\* the hashes of the postings the web search can find on each site; a
\* posting whose host holds both site names passes the domain test of both
\* adapters (seek.py line 35, linkedin.py line 63)
SiteHashes == [seek |-> {1, 2}, linkedin |-> {2, 3}]

AllHashes == SiteHashes.seek \cup SiteHashes.linkedin

\* seek.py lines 22-58 and linkedin.py lines 48-86: every list of at most
\* limit jobs of the site whose hashes are outside exclude
search_adapter(src, limit, exclude) ==
    UNION {[1..k -> SiteHashes[src] \ exclude] : k \in 0..limit}

(***************************************************************************)
(* modules/jobs/stream.py: one run of stream_jobs.  The two producer tasks *)
(* and the consumer loop run on one event loop; a task runs from one await *)
(* or yield to the next without interruption.                              *)
(***************************************************************************)
\* the largest limit and the largest allocation of a source in a request
MaxLimit == 2

MaxAlloc == 2

\* the session id of the requests
SessionIds == { <<115, 49>> }

\* a producer task that has not been created
NoProducer == [at |-> "none", n |-> 0, remaining |-> 0, attempts |-> 0,
               local_exclude |-> {}]

\* stream_jobs has not been called
NoStream(input) ==
    [at |-> "called", input |-> input, requested |-> 0, exclude |-> {},
     seen_at_start |-> {}, delivered |-> {}, queue |-> <<>>,
     producers |-> [src \in Sources |-> NoProducer],
     jobs |-> <<>>, progress |-> -1, ends |-> <<>>]

\* the requests: SearchJobsInput with its limit, allocation, exclude_hashes
\* and session_id
StreamInputs ==
    [limit : 0..MaxLimit,
     allocation : [Sources -> 0..MaxAlloc],
     exclude_hashes : {{}, {1}},
     session_id : {None} \cup SessionIds]

\* a loop that never sees the requested count delivered
never_fulfilled(delivered, requested) == FALSE

\* lines 94 and 125: len(delivered) >= requested
fulfilled(delivered, requested) == Cardinality(delivered) >= requested

\* lines 39 and 66
max_attempts(n) == Max(3, n)

\* producer tasks that are never seen done
none_done(producers) == FALSE

\* line 103: all(p.done() for p in producers)
all_done(producers) == \A src \in Sources : producers[src].at = "done"

\* lines 15-30 and 85-88: the exclude set is built, the tasks are created
\* and the first progress event is yielded
StreamStart ==
    /\ stream.at = "called"
    /\ LET seen == IF stream.input.session_id # None
                   THEN get_seen(SESSION, stream.input.session_id) ELSE {}
       IN  stream' = [stream EXCEPT
                        !.requested = stream.input.limit,
                        !.exclude = stream.input.exclude_hashes \cup seen,
                        !.seen_at_start = seen,
                        !.producers = [src \in Sources |->
                                          [NoProducer EXCEPT !.at = "created"]],
                        !.progress = 0,
                        !.at = "loop"]
    /\ UNCHANGED <<SESSION, search>>

\* lines 41 and 67: the producer calls its adapter again or returns
producer_next(remaining, attempts, n) ==
    IF remaining > 0 /\ attempts < max_attempts(n) THEN "fetch" ELSE "done"

\* lines 33-43 and 60-69: the task starts and returns at once without an
\* allocation, or issues its first adapter call
ProducerStart(src) ==
    /\ stream.at \notin {"called", "off"}
    /\ stream.producers[src].at = "created"
    /\ LET n == stream.input.allocation[src]
       IN  stream' = [stream EXCEPT !.producers[src] =
                        IF n <= 0 THEN [@ EXCEPT !.at = "done"]
                        ELSE [at |-> producer_next(n, 0, n), n |-> n, remaining |-> n,
                              attempts |-> 0, local_exclude |-> stream.exclude]]
    /\ UNCHANGED <<SESSION, search>>

\* lines 49-56 and 75-82: the jobs of a page that are new to the producer
\* are put on the queue until the allocation is used up
RECURSIVE put_jobs(_, _)
put_jobs(p, jobs) ==
    IF jobs = <<>> THEN p
    ELSE IF jobs[1] \in p.local_exclude THEN put_jobs(p, Tail(jobs))
    ELSE LET q == [p EXCEPT !.local_exclude = @ \cup {jobs[1]},
                            !.remaining = @ - 1,
                            !.put = Append(@, jobs[1])]
         IN  IF q.remaining <= 0 THEN q ELSE put_jobs(q, Tail(jobs))

\* lines 42-56 and 68-82: the adapter call returns; an empty page counts as
\* an attempt and the task sleeps, a page with jobs resets the attempts
ProducerFetch(src) ==
    /\ stream.at \notin {"called", "off"}
    /\ stream.producers[src].at = "fetch"
    /\ LET p == stream.producers[src]
           after(jobs) ==
               IF jobs = <<>> THEN [remaining |-> p.remaining, attempts |-> p.attempts + 1,
                                    local_exclude |-> p.local_exclude, put |-> <<>>]
               ELSE put_jobs([remaining |-> p.remaining, attempts |-> 0,
                              local_exclude |-> p.local_exclude, put |-> <<>>], jobs)
           resumed(q) ==
               [stream EXCEPT
                  !.queue = @ \o q.put,
                  !.producers[src] =
                      [at |-> producer_next(q.remaining, q.attempts, p.n), n |-> p.n,
                       remaining |-> q.remaining, attempts |-> q.attempts,
                       local_exclude |-> q.local_exclude]]
       IN  \E jobs \in search_adapter(src, Min(1, p.remaining), p.local_exclude) :
               stream' = resumed(after(jobs))
    /\ UNCHANGED <<SESSION, search>>

\* lines 92-95: the requested count is delivered, the loop is left
ConsumerFulfilled ==
    /\ stream.at = "loop"
    /\ fulfilled(stream.delivered, stream.requested)
    /\ stream' = [stream EXCEPT !.at = "gather"]
    /\ UNCHANGED <<SESSION, search>>

\* lines 97-120: queue.get returns a job; a job that is excluded or
\* delivered is skipped, another one is recorded, added to the seen set of
\* the session and yielded as a "job" event
ConsumerGet ==
    /\ stream.at = "loop"
    /\ ~fulfilled(stream.delivered, stream.requested)
    /\ stream.queue # <<>>
    /\ LET job == Head(stream.queue)
       IN  IF job \in stream.exclude \/ job \in stream.delivered
           THEN /\ stream' = [stream EXCEPT !.queue = Tail(@)]
                /\ UNCHANGED SESSION
           ELSE /\ stream' = [stream EXCEPT !.queue = Tail(@),
                                            !.delivered = @ \cup {job},
                                            !.jobs = Append(@, job),
                                            !.at = "job"]
                /\ SESSION' = IF stream.input.session_id # None
                              THEN add_seen(SESSION, stream.input.session_id, {job})
                              ELSE SESSION
    /\ UNCHANGED search

\* lines 123-126: the "progress" event after a job, then the test of line 125
ConsumerProgress ==
    /\ stream.at = "job"
    /\ stream' = [stream EXCEPT
                    !.progress = Cardinality(stream.delivered),
                    !.at = IF fulfilled(stream.delivered, stream.requested)
                           THEN "gather" ELSE "loop"]
    /\ UNCHANGED <<SESSION, search>>

\* lines 98-101: the queue stayed empty for the timeout; the heartbeat
\* "progress" event is yielded
ConsumerTimeout ==
    /\ stream.at = "loop"
    /\ ~fulfilled(stream.delivered, stream.requested)
    /\ stream.queue = <<>>
    /\ stream' = [stream EXCEPT !.progress = Cardinality(stream.delivered),
                                !.at = "heartbeat"]
    /\ UNCHANGED <<SESSION, search>>

\* lines 103-105: after the heartbeat the loop is left if both tasks are done
ConsumerHeartbeat ==
    /\ stream.at = "heartbeat"
    /\ stream' = [stream EXCEPT !.at = IF all_done(stream.producers)
                                       THEN "gather" ELSE "loop"]
    /\ UNCHANGED <<SESSION, search>>

\* lines 129-132: gather returns once both tasks are done and the "end"
\* event is yielded
ConsumerEnd ==
    /\ stream.at = "gather"
    /\ all_done(stream.producers)
    /\ stream' = [stream EXCEPT !.ends = Append(@, Cardinality(stream.delivered)),
                                !.at = "ended"]
    /\ UNCHANGED <<SESSION, search>>

Producer(src) == ProducerStart(src) \/ ProducerFetch(src)

Consumer ==
    \/ StreamStart
    \/ ConsumerFulfilled
    \/ ConsumerGet
    \/ ConsumerProgress
    \/ ConsumerTimeout
    \/ ConsumerHeartbeat
    \/ ConsumerEnd

streamOthers == <<pc, profile, jd, result, prevScore, added, doc, jdst, resumeVars>>

NextStream ==
    \/ Consumer /\ UNCHANGED streamOthers
    \/ Producer("seek") /\ UNCHANGED streamOthers
    \/ Producer("linkedin") /\ UNCHANGED streamOthers

\* the store holds no entry of the session, or the seen hashes of earlier
\* batches
InitStream ==
    /\ SESSION \in {EmptyStore} \cup {[k \in SessionIds |-> {3}]}
    /\ stream \in {NoStream(input) : input \in StreamInputs}
    /\ search = <<>>
    /\ pc = "idle"
    /\ profile = None
    /\ jd = None
    /\ result = NoResult
    /\ prevScore = -1
    /\ added = 0
    /\ doc = None
    /\ jdst = NoLocals
    /\ ResumeIdle

SpecStream == InitStream /\ [][NextStream]_vars

\* the event loop runs every task that is ready, and every adapter call
\* returns
FairSpecStream ==
    /\ SpecStream
    /\ WF_vars(Consumer /\ UNCHANGED streamOthers)
    /\ WF_vars(Producer("seek") /\ UNCHANGED streamOthers)
    /\ WF_vars(Producer("linkedin") /\ UNCHANGED streamOthers)

(***************************************************************************)
(* Properties of stream_jobs                                               *)
(***************************************************************************)
\* the hashes of the "job" events so far are pairwise different
NoHashTwice(jobs) == \A i, k \in 1..Len(jobs) : jobs[i] = jobs[k] => i = k

\* the "job" events so far respect the exclusions and the limit
JobEventsAllowed ==
    stream.at # "called" =>
        /\ \A i \in 1..Len(stream.jobs) :
               /\ stream.jobs[i] \notin stream.input.exclude_hashes
               /\ stream.jobs[i] \notin stream.seen_at_start
        /\ NoHashTwice(stream.jobs)
        /\ Len(stream.jobs) <= stream.input.limit

\* C27: in one run of stream_jobs, under every interleaving of the two
\* producer tasks and the consumer loop, the hash of each "job" event is
\* neither in the exclude_hashes of the request nor in the seen set of the
\* session read at the start, no hash is emitted twice, the number of "job"
\* events is at most the limit, and the delivered count of successive
\* "progress" events never decreases.
C27_StreamSafety ==
    /\ []JobEventsAllowed
    /\ [][stream'.progress >= stream.progress]_vars

\* a run with a client exclusion and a seen hash has ended with as many
\* "job" events as requested, after both producers had found the posting
\* both sites carry and the consumer had skipped its second copy
C27_Witness ==
    /\ stream.at = "ended"
    /\ stream.input.exclude_hashes # {}
    /\ stream.seen_at_start # {}
    /\ Len(stream.jobs) = 1
    /\ stream.input.limit = 2
    /\ stream.jobs = <<2>>
    /\ \A src \in Sources : 2 \in stream.producers[src].local_exclude
    /\ stream.queue = <<>>

\* a producer that is done had no allocation, has put its allocation on
\* the queue, or has seen max(3, n) empty pages in a row
ProducerStopped(p) ==
    p.at = "done" => (p.n <= 0 \/ p.remaining <= 0 \/ p.attempts = max_attempts(p.n))

\* there is one "end" event and its delivered count is the number of "job"
\* events
OneEnd ==
    /\ Len(stream.ends) <= 1
    /\ stream.at = "ended" => (Len(stream.ends) = 1 /\ stream.ends[1] = Len(stream.jobs))
    /\ stream.at \notin {"ended", "off"} => stream.ends = <<>>

\* C28: stream_jobs terminates when every adapter call returns: each
\* producer stops after its allocation or after max(3, n) empty fetches in
\* a row, the consumer loop is left once the requested count is delivered
\* or both producers are done and the queue is empty, and every run emits
\* one "end" event, as its last event, whose delivered count is the number
\* of "job" events.
C28_StreamTerminates ==
    /\ <>(stream.at = "ended")
    /\ [](\A src \in Sources : ProducerStopped(stream.producers[src]))
    /\ []OneEnd
    /\ (stream.at = "loop" /\ (\/ fulfilled(stream.delivered, stream.requested)
                               \/ all_done(stream.producers) /\ stream.queue = <<>>))
           ~> (stream.at \in {"gather", "ended"})
    /\ [][stream.at = "ended" =>
              (stream'.jobs = stream.jobs /\ stream'.progress = stream.progress
               /\ stream'.ends = stream.ends)]_vars

\* a run has ended before the requested count was delivered: one producer
\* gave up after 3 empty pages in a row, the other had put its allocation on
\* the queue
C28_Witness ==
    /\ stream.at = "ended"
    /\ Len(stream.jobs) < stream.input.limit
    /\ stream.producers["seek"].attempts = 3
    /\ stream.producers["seek"].remaining > 0
    /\ stream.producers["linkedin"].n > 0
    /\ stream.producers["linkedin"].remaining = 0

(***************************************************************************)
(* modules/jobs/search.py and router.py: POST /search and POST /next-batch *)
(* are plain functions, which the server runs on worker threads, so calls  *)
(* of search_jobs run concurrently and a thread may be preempted between   *)
(* any two accesses of the session store.                                  *)
(***************************************************************************)
\* the worker threads and the calls of /next-batch that follow one /search
Threads == 1..2

MaxBatches == 1

\* a worker thread without a request
NoSearch ==
    [at |-> "idle", input |-> [limit |-> 0, allocation |-> [src \in Sources |-> 0],
                               exclude_hashes |-> {}, session_id |-> None],
     jobs |-> <<>>, limited |-> <<>>, added_hashes |-> <<>>, current |-> {},
     added_to_session |-> {}, batches |-> 0,
     out |-> [jobs |-> <<>>, seen_hashes |-> <<>>, deduped |-> 0, total |-> 0]]

\* the requests
SearchInputs ==
    [limit : 1..MaxLimit,
     allocation : {[seek |-> 1, linkedin |-> 1], [seek |-> MaxAlloc, linkedin |-> 0]},
     exclude_hashes : {{}},
     session_id : {None} \cup SessionIds]

\* lines 14-24: the first occurrence of every job whose hash is not excluded
RECURSIVE dedupe_from(_, _, _)
dedupe_from(jobs, seen, out) ==
    IF jobs = <<>> THEN out
    ELSE IF jobs[1] \in seen THEN dedupe_from(Tail(jobs), seen, out)
    ELSE dedupe_from(Tail(jobs), seen \cup {jobs[1]}, Append(out, jobs[1]))

dedupe(jobs, exclude) == dedupe_from(jobs, exclude, <<>>)

\* lines 31-33
search_exclude(input, store) ==
    IF input.session_id # None
    THEN input.exclude_hashes \cup get_seen(store, input.session_id)
    ELSE input.exclude_hashes

\* lines 28-46 on the jobs the adapters returned, up to the call of add_seen
search_fetched(th, input, seek_jobs, linkedin_jobs, store) ==
    LET jobs == seek_jobs \o linkedin_jobs
        unique == dedupe(jobs, search_exclude(input, store))
        limited == Take(unique, input.limit)
    IN  [th EXCEPT !.input = input, !.jobs = jobs, !.limited = limited,
                   !.added_hashes = unique,
                   !.added_to_session = {},
                   !.out = [jobs |-> limited,
                            seen_hashes |-> unique,
                            deduped |-> Len(jobs) - Len(unique), total |-> Len(limited)],
                   !.at = IF input.session_id # None /\ limited # <<>>
                          THEN "add_seen" ELSE "returned"]

\* the lists the adapters may return for the request (lines 37-40)
adapter_jobs(src, input, store) ==
    IF input.allocation[src] > 0
    THEN search_adapter(src, input.allocation[src], search_exclude(input, store))
    ELSE {<<>>}

\* router.py lines 11-13 and search.py lines 27-46: a request arrives
Search(t) ==
    /\ search[t].at = "idle"
    /\ \E input \in SearchInputs :
           \E seek_jobs \in adapter_jobs("seek", input, SESSION) :
               \E linkedin_jobs \in adapter_jobs("linkedin", input, SESSION) :
                   search' = [search EXCEPT ![t] =
                       search_fetched(@, input, seek_jobs, linkedin_jobs, SESSION)]
    /\ UNCHANGED <<SESSION, stream>>

\* router.py lines 16-19: the caller asks for the next batch with the
\* seen_hashes of the last response added to its exclude_hashes
next_batch(t) ==
    /\ search[t].at = "returned"
    /\ search[t].batches < MaxBatches
    /\ LET input == [search[t].input EXCEPT
                        !.exclude_hashes = @ \cup Range(search[t].out.seen_hashes)]
       IN  \E seek_jobs \in adapter_jobs("seek", input, SESSION) :
               \E linkedin_jobs \in adapter_jobs("linkedin", input, SESSION) :
                   search' = [search EXCEPT ![t] =
                       search_fetched([@ EXCEPT !.batches = @ + 1], input,
                                      seek_jobs, linkedin_jobs, SESSION)]
    /\ UNCHANGED <<SESSION, stream>>

\* search.py line 49 and session.py line 17: add_seen reads the seen set
AddSeenGet(t) ==
    /\ search[t].at = "add_seen"
    /\ search' = [search EXCEPT ![t].current = get_seen(SESSION, search[t].input.session_id),
                                ![t].at = "set"]
    /\ UNCHANGED <<SESSION, stream>>

\* session.py lines 18-19 and search.py lines 50-56: add_seen writes the
\* updated copy back and search_jobs returns
AddSeenSet(t) ==
    /\ search[t].at = "set"
    /\ LET hashes == Range(search[t].limited)
       IN  /\ SESSION' = cache_set(SESSION, search[t].input.session_id,
                                   search[t].current \cup hashes)
           /\ search' = [search EXCEPT ![t].added_to_session = hashes,
                                       ![t].at = "returned"]
    /\ UNCHANGED stream

searchOthers == <<pc, profile, jd, result, prevScore, added, doc, jdst, resumeVars>>

NextSearch ==
    \/ \E t \in Threads : Search(t) /\ UNCHANGED searchOthers
    \/ \E t \in Threads : next_batch(t) /\ UNCHANGED searchOthers
    \/ \E t \in Threads : AddSeenGet(t) /\ UNCHANGED searchOthers
    \/ \E t \in Threads : AddSeenSet(t) /\ UNCHANGED searchOthers

InitSearch ==
    /\ SESSION = EmptyStore
    /\ stream = [at |-> "off"]
    /\ search = [t \in Threads |-> NoSearch]
    /\ pc = "idle"
    /\ profile = None
    /\ jd = None
    /\ result = NoResult
    /\ prevScore = -1
    /\ added = 0
    /\ doc = None
    /\ jdst = NoLocals
    /\ ResumeIdle

SpecSearch == InitSearch /\ [][NextSearch]_vars

(***************************************************************************)
(* Properties of the session store and of search_jobs                      *)
(***************************************************************************)
\* every call has returned
AllReturned == \A t \in Threads : search[t].at = "returned"

\* C29: once all concurrent calls of add_seen on a session id have returned,
\* get_seen of that session holds every hash passed to any of them; no
\* update is lost.
C29_NoLostUpdate ==
    AllReturned =>
        \A t \in Threads :
            search[t].input.session_id # None =>
                search[t].added_to_session
                    \subseteq get_seen(SESSION, search[t].input.session_id)

\* C30: the seen_hashes a call of search_jobs returns are the hashes of the
\* jobs it returns, in the same order, and with a session_id they are the
\* hashes the call adds to the seen set of the session; a job cut off by the
\* limit is not reported as seen.
C30_SeenAreReturned ==
    \A t \in Threads :
        search[t].at = "returned" =>
            /\ search[t].out.seen_hashes = search[t].out.jobs
            /\ search[t].input.session_id # None =>
                   Range(search[t].out.seen_hashes) = search[t].added_to_session

====
